---- MODULE Spec2Model ----
(***************************************************************************)
(* A model of tfh-mitm: the TFH stream reassembler and framing parser      *)
(* (src/src/tfh_stream.rs), the connection manager, the packet view        *)
(* (src/src/packet.rs), the processor task (src/src/process.rs), the       *)
(* capture reader (src/src/pcap.rs) and the threads of the binaries        *)
(* replay-pcap and tfh-relay (src/src/bin).                                *)
(*                                                                         *)
(* Byte strings are sequences of integers 0..255.  Rust offsets are        *)
(* 0-based; the helpers below take the Rust offsets and do the shift.      *)
(* TLC's integers are 32-bit signed, so every 4-byte field that is read    *)
(* as one number has a first byte below 128 in the byte strings the model  *)
(* feeds: the read then stays below 2^31.  Sequence numbers stay far from  *)
(* the u32 wrap.                                                           *)
(***************************************************************************)
EXTENDS Integers, Sequences, FiniteSets, TLC

VARIABLES
    \* ---- one reassembler under test (SpecStream, SpecReorder) ----
    st,         \* the TfhStream: [start, buf, chunks, sync]
    sRes,       \* result of the last operation on st
    feeds,      \* number of handle_packet calls so far
    dupFeed,    \* the last handle_packet re-fed the previous datagram to a drained stream
    sDead,      \* next_message panicked: the thread that owned st is gone
    stream,     \* the byte stream the sending side transmits
    pending,    \* SpecReorder: datagrams not yet delivered
    delivered,  \* SpecReorder: the datagrams delivered so far, in arrival order
    msgs,       \* SpecReorder: messages returned by next_message so far
    \* ---- the processor thread and its channels (SpecProc) ----
    inHist,     \* every Input sent on the input channel so far, in order
    inOpen,     \* some Sender of the input channel is still alive
    nProc,      \* number of inputs the processor has received
    pc,         \* the processor thread: "running", "panicked" or "done"
    outHist,    \* every Output sent on the output channel so far, in order
    connMap,    \* TfhStreamConns::map
    handler,    \* the StreamHandlerImpl and the files it writes
    now,        \* the clock (Instant::now), in ticks
    lastSent,   \* the messages the last handle call passed to on_message
    lastCheck,  \* what the last check_timeout call saw and did
    \* ---- replay-pcap: main, processor and drainer threads (SpecReplay) ----
    capture,    \* the records of the capture file behind its global header
    pos,        \* number of records main has read
    mpc,        \* the main thread: "read", "send", "returned", "panicked"
    rdBuf,      \* the Input main holds between pcap.read and send (<<>> or <<inp>>)
    inQ,        \* the input channel
    inTx,       \* inp_send is alive
    ppc,        \* the processor thread: "recv", "have", "done", "panicked"
    procBuf,    \* the Input the processor holds (<<>> or <<inp>>)
    outQ,       \* the output channel
    dpc,        \* the drainer thread: "recv", "have", "done"
    drBuf,      \* the Output the drainer holds (<<>> or <<out>>)
    nAlloc,     \* number of Packets allocated so far
    freed,      \* the Packets dropped so far
    \* ---- tfh-relay: two reader threads and main (SpecRelay) ----
    rdr,        \* the reader threads: side -> "reading", "ended", "panicked"
    reads,      \* number of read_packet calls that returned so far
    chan,       \* the channel from the readers to main
    wpc,        \* the main thread: "relay", "ok", "err", "panicked"
    written,    \* every packet write_packet has written so far, in order
    \* ---- either binary ----
    exited,     \* the process has exited
    exitCode,   \* with this code
    \* ---- one Packet (SpecPacket) ----
    pkLen,      \* Packet::len
    pkRes,      \* the last operation: [op, ok]
    \* ---- one IPv4 header (SpecChecksum) ----
    ipHdr,      \* the packet: an IPv4 header
    ckRes       \* results of compute_ipv4_checksum (<<>> before the call)

streamVars == <<st, sRes, feeds, dupFeed, sDead, stream, pending, delivered, msgs>>
procVars == <<inHist, inOpen, nProc, pc, outHist, connMap, handler, now, lastSent, lastCheck>>
replayVars == <<capture, pos, mpc, rdBuf, inQ, inTx, ppc, procBuf, outQ, dpc, drBuf, nAlloc, freed>>
relayVars == <<rdr, reads, chan, wpc, written>>
exitVars == <<exited, exitCode>>
packetVars == <<pkLen, pkRes>>
sumVars == <<ipHdr, ckRes>>
auxVars == <<replayVars, relayVars, exitVars, packetVars, sumVars>>
vars == <<streamVars, procVars, auxVars>>

----------------------------------------------------------------------------
\* Bounds of the model

\* handle_packet calls in one behaviour of SpecStream
MaxFeeds == 3
\* inputs sent to the processor in one behaviour of SpecProc
MaxInputs == 2
\* the clock of SpecProc stops here (in ticks)
MaxNow == 130

----------------------------------------------------------------------------
\* Helpers

\* Notation: CHOOSE r \in {F(x) : x \in {e}} : TRUE is F(e).  It names the
\* value of e, which is then computed once however often F uses it.

Min(a, b) == IF a < b THEN a ELSE b
Max(a, b) == IF a > b THEN a ELSE b
SetMin(S) == CHOOSE x \in S : \A y \in S : x <= y
SetMax(S) == CHOOSE x \in S : \A y \in S : x >= y

Zeros(n) == [i \in 1..n |-> 0]

\* b[from .. to] of the source (0-based, end exclusive)
Slice(b, from, to) == SubSeq(b, from + 1, to)

\* Bytes::u32_be / u32_le on a byte slice; i is the 0-based offset
u32_be(b, i) == b[i+1] * 16777216 + b[i+2] * 65536 + b[i+3] * 256 + b[i+4]
u32_le(b, i) == b[i+4] * 16777216 + b[i+3] * 65536 + b[i+2] * 256 + b[i+1]

----------------------------------------------------------------------------
\* Packet and the header views (src/src/packet.rs).  A Packet is the byte
\* sequence as_slice() returns.  An accessor that indexes past the end of a
\* slice panics; X_panics(p) says that X(p) does.

u8_be(b, i) == b[i+1]
u16_be(b, i) == b[i+1] * 256 + b[i+2]
\* the two bytes put_u16_be writes
U16Bytes(x) == <<x \div 256, x % 256>>

\* Ipv4Header::version, ::ihl
version(p) == u8_be(p, 0) \div 16
ihl(p) == u8_be(p, 0) % 16

\* Packet::is_ipv4, ::is_ipv6: both read byte 0
is_ipv4_panics(p) == Len(p) < 1
is_ipv4(p) == version(p) = 4
is_ipv6(p) == version(p) = 6

\* Packet::ipv4_start, ::ipv4_len, ::ipv4_end
ipv4_start(p) == 0
ipv4_len(p) == ihl(p) * 4
ipv4_end(p) == ipv4_start(p) + ipv4_len(p)

\* Packet::ipv4: the slice [ipv4_start, ipv4_end) of the packet
ipv4_panics(p) == Len(p) < 1 \/ ipv4_end(p) > Len(p)
ipv4(p) == Slice(p, ipv4_start(p), ipv4_end(p))

\* Ipv4Header::protocol: byte 9 of the header slice
protocol(hdr) == u8_be(hdr, 9)

\* Packet::is_udp
is_udp_panics(p) ==
    is_ipv4_panics(p) \/ (is_ipv4(p) /\ (ipv4_panics(p) \/ ipv4_len(p) < 10))
is_udp(p) == is_ipv4(p) /\ protocol(ipv4(p)) = 17

\* Packet::udp_start, ::udp_len, ::udp_end
udp_start_panics(p) == is_ipv4_panics(p) \/ ~is_ipv4(p)
udp_start(p) == ipv4_end(p)
udp_len(p) == 8
udp_end(p) == udp_start(p) + udp_len(p)

\* Packet::udp and ::udp_payload: the slices [udp_start, udp_end) and [udp_end ..)
udp_panics(p) == udp_start_panics(p) \/ udp_end(p) > Len(p)
udp(p) == Slice(p, udp_start(p), udp_end(p))
udp_payload(p) == Slice(p, udp_end(p), Len(p))

\* UdpHeader::source_port, ::dest_port
source_port(hdr) == u16_be(hdr, 0)
dest_port(hdr) == u16_be(hdr, 2)

\* sum without the end-around carry
ones_complement_add_no_carry(x, y) == (x + y) % 65536

\* ones_complement_add on u16
ones_complement_add(x, y) ==
    LET sum == (x + y) % 65536
        over == (x + y) \div 65536
    IN  sum + over

\* the one's-complement sum of the 16-bit words of b from byte i on; an odd
\* last byte counts as the high byte of a word
RECURSIVE SumWords(_, _, _)
SumWords(b, i, acc) ==
    IF i >= Len(b) THEN acc
    ELSE IF i + 1 < Len(b)
         THEN CHOOSE r \in {SumWords(b, j, a) :
                               j \in {i + 2},
                               a \in {ones_complement_add(acc, u16_be(b, i))}} : TRUE
         ELSE ones_complement_add(acc, u8_be(b, i) * 256)

\* the loop of compute_ipv4_checksum from offset i on: the words of the
\* header, the one at offset 10 left out
RECURSIVE Ipv4Words(_, _, _)
Ipv4Words(header, i, acc) ==
    IF i >= Len(header) THEN acc
    ELSE CHOOSE r \in {Ipv4Words(header, j, a) :
                          j \in {i + 2},
                          a \in {IF i = 10 THEN acc
                                 ELSE ones_complement_add(acc, u16_be(header, i))}} : TRUE

\* the same loop without the test for offset 10
compute_ipv4_checksum_with_field(p) == 65535 - SumWords(ipv4(p), 0, 0)

\* Packet::compute_ipv4_checksum: !acc on a u16
compute_ipv4_checksum(p) == 65535 - Ipv4Words(ipv4(p), 0, 0)

\* Packet::compute_udp_checksum.  The pseudo-header holds the bytes of the
\* addresses and ports as the header stores them (put_u32_be of u32_be).
compute_udp_checksum(p, data) ==
    LET ip == ipv4(p)
        pseudo_header == Slice(ip, 12, 16) \o Slice(ip, 16, 20)
                         \o <<0, protocol(ip)>>
                         \o U16Bytes((Len(data) + 8) % 65536)
                         \o Slice(udp(p), 0, 2) \o Slice(udp(p), 2, 4)
                         \o Slice(udp(p), 4, 6) \o <<0, 0>>
        acc == SumWords(data, 0, SumWords(pseudo_header, 0, 0))
    IN  IF acc = 65535 THEN 65535 ELSE 65535 - acc

\* Packet::update_udp_checksum: store compute_udp_checksum of the payload in
\* bytes 6-7 of the UDP header
update_udp_checksum(p) ==
    LET c == U16Bytes(compute_udp_checksum(p, udp_payload(p)))
        at == udp_start(p) + 6
    IN  [p EXCEPT ![at + 1] = c[1], ![at + 2] = c[2]]

\* the ports of the TFH lobby protocol
TFH_PORT_MIN == 27010
TFH_PORT_MAX == 27030

\* Packet::is_tfh_stream: a UDP datagram to or from a TFH port
is_tfh_stream_panics(p) == is_udp_panics(p) \/ (is_udp(p) /\ udp_panics(p))
is_tfh_stream(p) ==
    /\ is_udp(p)
    /\ \/ source_port(udp(p)) \in TFH_PORT_MIN..TFH_PORT_MAX
       \/ dest_port(udp(p)) \in TFH_PORT_MIN..TFH_PORT_MAX

\* Packet::tfh_stream and ::tfh_stream_payload: my_seq and your_seq are the
\* first two big-endian words of the UDP payload, the stream slice follows
tfh_stream_panics(p) == Len(udp_payload(p)) < 8
tfh_datagram(p) ==
    [seq  |-> u32_be(udp_payload(p), 0),
     ack  |-> u32_be(udp_payload(p), 4),
     data |-> Slice(udp_payload(p), 8, Len(udp_payload(p)))]

----------------------------------------------------------------------------
\* TfhStream

\* Seq(!0): the start of a reassembler that has seen no packet.  It is the
\* largest sequence number; the model uses the largest integer TLC has.
SeqNotSet == 2147483647

EmptyChunks == [k \in {} |-> [len |-> 0, ack |-> 0]]

\* TfhStream::new
TfhStreamNew == [start |-> SeqNotSet, buf |-> <<>>, chunks |-> EmptyChunks, sync |-> FALSE]

\* copy_slice_into_vec_deque that overwrites in place but never appends the
\* part of src that lies beyond the end of dest
copy_slice_no_extend(dest, src, offset) ==
    IF Len(dest) <= offset
    THEN dest \o Zeros(offset - Len(dest)) \o src
    ELSE LET end == offset + Len(src)
             dest_end == Min(Len(dest), end)
         IN  [i \in 1..Len(dest) |->
                 IF i > offset /\ i <= dest_end THEN src[i - offset] ELSE dest[i]]

\* copy_slice_into_vec_deque: write src into dest at offset, growing dest
copy_slice_into_vec_deque(dest, src, offset) ==
    IF Len(dest) <= offset
    THEN dest \o Zeros(offset - Len(dest)) \o src
    ELSE LET end == offset + Len(src)
             dest_end == Min(Len(dest), end)
         IN  [i \in 1..Len(dest) |->
                 IF i > offset /\ i <= dest_end THEN src[i - offset] ELSE dest[i]]
             \o SubSeq(src, dest_end - offset + 1, Len(src))

\* chunks.entry(start): insert, or take the maximum of length and ack
UpsertChunk(chunks, start, len, ack_seq) ==
    IF start \in DOMAIN chunks
    THEN [chunks EXCEPT ![start] = [len |-> Max(@.len, len), ack |-> Max(@.ack, ack_seq)]]
    ELSE [k \in DOMAIN chunks \cup {start} |->
             IF k = start THEN [len |-> len, ack |-> ack_seq] ELSE chunks[k]]

\* handle_packet that lets a packet set the position whenever the buffer is
\* empty, synced or not
handle_packet_adopts_when_synced(s, d) ==
    LET start == d.seq
        self_start == IF Len(s.buf) = 0 THEN start ELSE s.start
        end == start + Len(d.data)
    IN  IF end < self_start
        THEN [s EXCEPT !.start = self_start]
        ELSE LET adj == self_start - start
                 copy_data == IF start < self_start
                              THEN Slice(d.data, adj, Len(d.data))
                              ELSE d.data
                 offset == IF start < self_start THEN 0 ELSE start - self_start
             IN  [start  |-> self_start,
                  buf    |-> copy_slice_into_vec_deque(s.buf, copy_data, offset),
                  chunks |-> UpsertChunk(s.chunks, start, Len(d.data), d.ack),
                  sync   |-> s.sync \/ self_start = 0]

\* handle_packet that records the chunk of a datagram before it tests
\* whether the datagram lies before start
handle_packet_records_stale(s, d) ==
    LET start == d.seq
        self_start == IF ~s.sync /\ Len(s.buf) = 0 THEN start ELSE s.start
        end == start + Len(d.data)
    IN  IF end < self_start
        THEN [s EXCEPT !.start = self_start,
                       !.chunks = UpsertChunk(s.chunks, start, Len(d.data), d.ack)]
        ELSE LET adj == self_start - start
                 copy_data == IF start < self_start
                              THEN Slice(d.data, adj, Len(d.data))
                              ELSE d.data
                 offset == IF start < self_start THEN 0 ELSE start - self_start
             IN  [start  |-> self_start,
                  buf    |-> copy_slice_into_vec_deque(s.buf, copy_data, offset),
                  chunks |-> UpsertChunk(s.chunks, start, Len(d.data), d.ack),
                  sync   |-> s.sync \/ self_start = 0]

\* TfhStream::handle_packet on a TFH datagram d = [seq, ack, data]
\* (my_seq, your_seq and the stream payload of the packet)
handle_packet(s, d) ==
    LET start == d.seq
        self_start == IF ~s.sync /\ Len(s.buf) = 0 THEN start ELSE s.start
        end == start + Len(d.data)
    IN  IF end < self_start
        THEN [s EXCEPT !.start = self_start]
        ELSE LET adj == self_start - start
                 copy_data == IF start < self_start
                              THEN Slice(d.data, adj, Len(d.data))
                              ELSE d.data
                 offset == IF start < self_start THEN 0 ELSE start - self_start
             IN  [start  |-> self_start,
                  buf    |-> copy_slice_into_vec_deque(s.buf, copy_data, offset),
                  chunks |-> UpsertChunk(s.chunks, start, Len(d.data), d.ack),
                  sync   |-> s.sync \/ self_start = 0]

\* the sweep of count_avail without the break at a chunk that begins beyond
\* the end reached so far
RECURSIVE AvailSweep_no_break(_, _, _)
AvailSweep_no_break(chunks, keys, end) ==
    IF keys = {} THEN end
    ELSE LET chunk_start == SetMin(keys)
         IN  AvailSweep_no_break(chunks, keys \ {chunk_start},
                                 Max(end, chunk_start + chunks[chunk_start].len))

\* the sweep of count_avail over the chunks in key order
RECURSIVE AvailSweep(_, _, _)
AvailSweep(chunks, keys, end) ==
    IF keys = {} THEN end
    ELSE LET chunk_start == SetMin(keys)
         IN  IF chunk_start > end THEN end
             ELSE AvailSweep(chunks, keys \ {chunk_start},
                             Max(end, chunk_start + chunks[chunk_start].len))

\* count_avail that takes the furthest chunk end, without stopping at a gap
count_avail_ignoring_gaps(s) ==
    SetMax({s.start} \cup {k + s.chunks[k].len : k \in DOMAIN s.chunks}) - s.start

\* TfhStream::count_avail
count_avail(s) == AvailSweep(s.chunks, DOMAIN s.chunks, s.start) - s.start

\* the loop of next_message that consumes chunks and computes the ack
RECURSIVE ConsumeChunks(_, _, _)
ConsumeChunks(chunks, end, ack) ==
    IF DOMAIN chunks = {} THEN [chunks |-> chunks, ack |-> ack]
    ELSE LET chunk_start == SetMin(DOMAIN chunks)
             chunk_len == chunks[chunk_start].len
             ack2 == Max(ack, chunks[chunk_start].ack)
         IN  IF chunk_start >= end THEN [chunks |-> chunks, ack |-> ack]
             ELSE IF chunk_start + chunk_len <= end
                  THEN ConsumeChunks([k \in DOMAIN chunks \ {chunk_start} |-> chunks[k]],
                                     end, ack2)
                  ELSE [chunks |-> chunks, ack |-> ack2]

\* a drain that empties the buffer
drain_all(buf, n) == <<>>

\* VecDeque::drain(..n): the buffer without its first n bytes
drain(buf, n) == Slice(buf, n, Len(buf))

NoMessage == [major |-> 0, minor |-> 0, dir |-> 0, ack |-> 0, len |-> 0, body |-> <<>>]

\* TfhStream::next_message.  kind is "None", "Some" (prologue = TRUE for the
\* one-byte message) or "panic"; s is the reassembler after the call.
next_message(s) ==
    LET avail == count_avail(s)
    IN  IF s.start = 0 /\ avail >= 1
        THEN [kind |-> "Some", prologue |-> TRUE,
              msg |-> [major |-> 0, minor |-> 0, dir |-> 255, ack |-> 0, len |-> 1,
                       body |-> <<s.buf[1]>>],
              s |-> [s EXCEPT !.start = 1, !.buf = drain(s.buf, 1)]]
        ELSE IF avail < 4
        THEN [kind |-> "None", prologue |-> FALSE, msg |-> NoMessage, s |-> s]
        ELSE LET len == u32_be(s.buf, 0)
             IN  IF avail < 4 + len
                 THEN [kind |-> "None", prologue |-> FALSE, msg |-> NoMessage, s |-> s]
                 ELSE LET end == s.start + 4 + len
                          raw_header_len == Min(10, len)
                          raw_header == Slice(s.buf, 4, 4 + raw_header_len)
                                            \o Zeros(10 - raw_header_len)
                          major == u32_be(raw_header, 2)
                          minor == IF major = 32 THEN u32_le(raw_header, 6) ELSE 0
                          header_len == 10 + (IF major = 32 THEN 4 ELSE 0)
                          body_len == 4 + len - header_len
                          swept == ConsumeChunks(s.chunks, end, 0)
                      IN  IF body_len < 0
                          \* usize underflow: a panic in a debug build, and in a
                          \* release build vec![0; body_len] of almost 2^64 bytes
                          \* panics with "capacity overflow"
                          THEN [kind |-> "panic", prologue |-> FALSE, msg |-> NoMessage, s |-> s]
                          ELSE [kind |-> "Some", prologue |-> FALSE,
                                msg |-> [major |-> major % 256, minor |-> minor % 256,
                                         dir |-> 255, ack |-> swept.ack, len |-> body_len,
                                         body |-> Slice(s.buf, header_len, header_len + body_len)],
                                s |-> [start  |-> end,
                                       buf    |-> drain(s.buf, end - s.start),
                                       chunks |-> swept.chunks,
                                       sync   |-> s.sync]]

----------------------------------------------------------------------------
\* The default handler (StreamHandlerImpl, src/src/process.rs).  Its state is
\* hs = [names, logs, status, writes, io]: the player name and the log file
\* of each connection, the content of status.txt, how often it was written,
\* and whether the file system takes writes ("ok") or fails every
\* File::create and write ("fail").

EmptyMap == [k \in {} |-> 0]

MapPut(f, k, v) == [x \in DOMAIN f \cup {k} |-> IF x = k THEN v ELSE f[x]]
MapRemove(f, k) == [x \in DOMAIN f \ {k} |-> f[x]]

\* StreamHandlerImpl::default; status.txt does not exist yet
HandlerNew ==
    [names |-> EmptyMap, logs |-> EmptyMap, status |-> EmptyMap, writes |-> 0, io |-> "ok"]


\* StreamHandlerImpl::update_status: status.txt lists the names in sorted
\* order; the model keeps how often each name is listed.  An error of
\* try_update_status is printed and dropped.
update_status(hs) ==
    LET listed == {hs.names[c] : c \in DOMAIN hs.names}
    IN  IF hs.io = "fail" THEN hs
        ELSE [hs EXCEPT !.status = [n \in listed |->
                                       Cardinality({c \in DOMAIN hs.names : hs.names[c] = n})],
                        !.writes = @ + 1]

\* StreamHandlerImpl::try_log_message: the header and the body of msg are
\* appended to the log file of ct, which is created on the first message; on
\* an error nothing is created or appended (on_message prints the error)
try_log_message(hs, ct, msg) ==
    IF hs.io = "fail" THEN hs
    ELSE [hs EXCEPT !.logs = MapPut(@, ct, (IF ct \in DOMAIN @ THEN @[ct] ELSE <<>>) \o <<msg>>)]

\* StreamHandlerImpl::on_message
on_message(hs, ct, msg) ==
    LET named == IF msg.dir = 0 /\ msg.major = 10 /\ Len(msg.body) >= 12 + 64
                 THEN update_status([hs EXCEPT !.names =
                                        MapPut(@, ct, Slice(msg.body, 12, 12 + 64))])
                 ELSE hs
    IN  try_log_message(named, ct, msg)

\* on_timeout without self.logs.remove: the log file of ct stays open
on_timeout_keeps_log(hs, ct) ==
    IF ct \in DOMAIN hs.names
    THEN update_status([hs EXCEPT !.names = MapRemove(@, ct)])
    ELSE hs

\* StreamHandlerImpl::on_timeout
on_timeout(hs, ct) ==
    LET closed == [hs EXCEPT !.logs = MapRemove(@, ct)]
    IN  IF ct \in DOMAIN hs.names
        THEN update_status([closed EXCEPT !.names = MapRemove(@, ct)])
        ELSE closed

----------------------------------------------------------------------------
\* TfhStreamConns (src/src/tfh_stream.rs): map is ConnTuple -> StreamConn

CONN_TIMEOUT == 60

\* clock ticks per second: Instant is finer than the seconds as_secs() returns
TicksPerSec == 2

\* from_udp_packet that never swaps the two ends
from_udp_packet_no_flip(p, flip) ==
    <<u32_be(ipv4(p), 12), source_port(udp(p)), u32_be(ipv4(p), 16), dest_port(udp(p))>>

\* ConnTuple::from_udp_packet for an IPv4 packet
from_udp_packet(p, flip) ==
    LET addr1 == u32_be(ipv4(p), 12)
        addr2 == u32_be(ipv4(p), 16)
        port1 == source_port(udp(p))
        port2 == dest_port(udp(p))
    IN  IF ~flip THEN <<addr1, port1, addr2, port2>>
                 ELSE <<addr2, port2, addr1, port1>>

\* StreamConn::new
StreamConnNew(now_) == [ab |-> TfhStreamNew, ba |-> TfhStreamNew, last_packet |-> now_]

\* the loop of handle without the assignment to msg.header.dir
RECURSIVE Dispatch_unstamped(_, _, _, _, _)
Dispatch_unstamped(s, dir, ct, hs, sent) ==
    CHOOSE res \in
        {IF r.kind = "Some"
         THEN CHOOSE d \in {Dispatch_unstamped(r.s, dir, ct, h, Append(sent, r.msg)) :
                               h \in {on_message(hs, ct, r.msg)}} : TRUE
         ELSE [s |-> s, hs |-> hs, sent |-> sent, panic |-> r.kind = "panic"] :
             r \in {next_message(s)}} : TRUE

\* an `if let` for the `while let` of handle: at most one message is taken
\* from the reassembler per packet
Dispatch_once(s, dir, ct, hs, sent) ==
    CHOOSE res \in
        {IF r.kind = "Some"
         THEN [s |-> r.s, hs |-> on_message(hs, ct, [r.msg EXCEPT !.dir = dir]),
               sent |-> Append(sent, [r.msg EXCEPT !.dir = dir]), panic |-> FALSE]
         ELSE [s |-> s, hs |-> hs, sent |-> sent, panic |-> r.kind = "panic"] :
             r \in {next_message(s)}} : TRUE

\* the loop of handle with a handler that unwraps the result of its file
\* operations: the first message met while the file system fails ends the call
RECURSIVE Dispatch_unwrap(_, _, _, _, _)
Dispatch_unwrap(s, dir, ct, hs, sent) ==
    CHOOSE res \in
        {IF r.kind = "Some" /\ hs.io = "fail"
         THEN [s |-> r.s, hs |-> hs, sent |-> Append(sent, [r.msg EXCEPT !.dir = dir]),
               panic |-> TRUE]
         ELSE IF r.kind = "Some"
         THEN CHOOSE d \in {Dispatch_unwrap(r.s, dir, ct, h,
                                            Append(sent, [r.msg EXCEPT !.dir = dir])) :
                               h \in {on_message(hs, ct, [r.msg EXCEPT !.dir = dir])}} : TRUE
         ELSE [s |-> s, hs |-> hs, sent |-> sent, panic |-> r.kind = "panic"] :
             r \in {next_message(s)}} : TRUE

\* one of the two loops of handle: next_message until None, each message
\* stamped with dir and passed to on_message; a panic of next_message ends it
RECURSIVE Dispatch(_, _, _, _, _)
Dispatch(s, dir, ct, hs, sent) ==
    CHOOSE res \in
        {IF r.kind = "Some"
         THEN CHOOSE d \in {Dispatch(r.s, dir, ct, h, Append(sent, [r.msg EXCEPT !.dir = dir])) :
                               h \in {on_message(hs, ct, [r.msg EXCEPT !.dir = dir])}} : TRUE
         ELSE [s |-> s, hs |-> hs, sent |-> sent, panic |-> r.kind = "panic"] :
             r \in {next_message(s)}} : TRUE

\* handle that gives the packet to the reassembler of the other direction
handle_conn_feeds_other(map, hs, flip, now_, ct, d, sc) ==
    CHOOSE res \in
        {CHOOSE res1 \in
            {CHOOSE res2 \in
                {[map |-> MapPut(map, ct, [ab |-> r1.s, ba |-> r2.s, last_packet |-> now_]),
                  hs |-> r2.hs, sent |-> r2.sent, panic |-> r2.panic] :
                    r2 \in {IF r1.panic
                            THEN [s |-> ba1, hs |-> r1.hs, sent |-> r1.sent, panic |-> TRUE]
                            ELSE Dispatch(ba1, 1, ct, r1.hs, r1.sent)}} : TRUE :
                r1 \in {Dispatch(ab1, 0, ct, hs, <<>>)}} : TRUE :
            ab1 \in {IF flip THEN handle_packet(sc.ab, d) ELSE sc.ab},
            ba1 \in {IF ~flip THEN handle_packet(sc.ba, d) ELSE sc.ba}} : TRUE

\* handle without the assignment to last_packet: an entry keeps the time of
\* its creation
handle_conn_no_refresh(map, hs, flip, now_, ct, d, sc) ==
    CHOOSE res \in
        {CHOOSE res1 \in
            {CHOOSE res2 \in
                {[map |-> MapPut(map, ct, [ab |-> r1.s, ba |-> r2.s,
                                           last_packet |-> sc.last_packet]),
                  hs |-> r2.hs, sent |-> r2.sent, panic |-> r2.panic] :
                    r2 \in {IF r1.panic
                            THEN [s |-> ba1, hs |-> r1.hs, sent |-> r1.sent, panic |-> TRUE]
                            ELSE Dispatch(ba1, 1, ct, r1.hs, r1.sent)}} : TRUE :
                r1 \in {Dispatch(ab1, 0, ct, hs, <<>>)}} : TRUE :
            ab1 \in {IF ~flip THEN handle_packet(sc.ab, d) ELSE sc.ab},
            ba1 \in {IF flip THEN handle_packet(sc.ba, d) ELSE sc.ba}} : TRUE

\* the part of handle after the map entry sc of ct was found or made: the
\* datagram d goes to one reassembler, then both are drained
handle_conn(map, hs, flip, now_, ct, d, sc) ==
    CHOOSE res \in
        {CHOOSE res1 \in
            {CHOOSE res2 \in
                {[map |-> MapPut(map, ct, [ab |-> r1.s, ba |-> r2.s, last_packet |-> now_]),
                  hs |-> r2.hs, sent |-> r2.sent, panic |-> r2.panic] :
                    r2 \in {IF r1.panic
                            THEN [s |-> ba1, hs |-> r1.hs, sent |-> r1.sent, panic |-> TRUE]
                            ELSE Dispatch(ba1, 1, ct, r1.hs, r1.sent)}} : TRUE :
                r1 \in {Dispatch(ab1, 0, ct, hs, <<>>)}} : TRUE :
            ab1 \in {IF ~flip THEN handle_packet(sc.ab, d) ELSE sc.ab},
            ba1 \in {IF flip THEN handle_packet(sc.ba, d) ELSE sc.ba}} : TRUE

\* handle that looks up or creates the entry and refreshes last_packet
\* before it tests is_tfh_stream
handle_entry_first(map, hs, p, flip, now_) ==
    IF is_tfh_stream_panics(p)
    THEN [map |-> map, hs |-> hs, sent |-> <<>>, panic |-> TRUE]
    ELSE IF ~is_tfh_stream(p)
    THEN IF ~is_ipv4(p) \/ ipv4_panics(p) \/ udp_panics(p)
         THEN [map |-> map, hs |-> hs, sent |-> <<>>, panic |-> TRUE]
         ELSE CHOOSE res \in
                  {[map |-> MapPut(map, ct, [IF ct \in DOMAIN map THEN map[ct]
                                             ELSE StreamConnNew(now_)
                                                EXCEPT !.last_packet = now_]),
                    hs |-> hs, sent |-> <<>>, panic |-> FALSE] :
                      ct \in {from_udp_packet(p, flip)}} : TRUE
    ELSE IF tfh_stream_panics(p)
    THEN [map |-> map, hs |-> hs, sent |-> <<>>, panic |-> TRUE]
    ELSE CHOOSE res \in
             {handle_conn(map, hs, flip, now_, ct, d,
                          IF ct \in DOMAIN map THEN map[ct] ELSE StreamConnNew(now_)) :
                 ct \in {from_udp_packet(p, flip)}, d \in {tfh_datagram(p)}} : TRUE

\* TfhStreamConns::handle at time now_.  sent lists the messages passed to
\* on_message; panic says that the call did not return.
handle(map, hs, p, flip, now_) ==
    IF is_tfh_stream_panics(p)
    THEN [map |-> map, hs |-> hs, sent |-> <<>>, panic |-> TRUE]
    ELSE IF ~is_tfh_stream(p)
    THEN [map |-> map, hs |-> hs, sent |-> <<>>, panic |-> FALSE]
    ELSE IF tfh_stream_panics(p)
    THEN [map |-> map, hs |-> hs, sent |-> <<>>, panic |-> TRUE]
    ELSE CHOOSE res \in
             {handle_conn(map, hs, flip, now_, ct, d,
                          IF ct \in DOMAIN map THEN map[ct] ELSE StreamConnNew(now_)) :
                 ct \in {from_udp_packet(p, flip)}, d \in {tfh_datagram(p)}} : TRUE

\* last_packet.elapsed().as_secs()
elapsed_secs(sc, now_) == (now_ - sc.last_packet) \div TicksPerSec

\* the first loop of check_timeout with > CONN_TIMEOUT for >= CONN_TIMEOUT
RECURSIVE TimeoutSweep_strict(_, _, _, _, _)
TimeoutSweep_strict(map, order, now_, hs, remove) ==
    IF order = <<>> THEN [hs |-> hs, remove |-> remove]
    ELSE LET k == Head(order)
         IN  IF elapsed_secs(map[k], now_) > CONN_TIMEOUT
             THEN CHOOSE r \in {TimeoutSweep_strict(map, Tail(order), now_, h, Append(remove, k)) :
                                   h \in {on_timeout(hs, k)}} : TRUE
             ELSE TimeoutSweep_strict(map, Tail(order), now_, hs, remove)

\* the first loop of check_timeout over the entries in the order the map
\* yields them: on_timeout for every entry that is old enough
RECURSIVE TimeoutSweep(_, _, _, _, _)
TimeoutSweep(map, order, now_, hs, remove) ==
    IF order = <<>> THEN [hs |-> hs, remove |-> remove]
    ELSE LET k == Head(order)
         IN  IF elapsed_secs(map[k], now_) >= CONN_TIMEOUT
             THEN CHOOSE r \in {TimeoutSweep(map, Tail(order), now_, h, Append(remove, k)) :
                                   h \in {on_timeout(hs, k)}} : TRUE
             ELSE TimeoutSweep(map, Tail(order), now_, hs, remove)

\* TfhStreamConns::check_timeout; fired lists the on_timeout calls in order
check_timeout(map, hs, now_, order) ==
    CHOOSE res \in
        {[map |-> [k \in DOMAIN map \ {r.remove[i] : i \in 1..Len(r.remove)} |-> map[k]],
          hs |-> r.hs, fired |-> r.remove] :
            r \in {TimeoutSweep(map, order, now_, hs, <<>>)}} : TRUE

\* the orders in which a map with the keys S can yield its entries
Orders(S) ==
    {o \in [1..Cardinality(S) -> S] : \A i, j \in 1..Cardinality(S) : i # j => o[i] # o[j]}

----------------------------------------------------------------------------
\* The processor (process, src/src/process.rs)

STATUS_PORT_MIN == 27010
STATUS_PORT_MAX == 27030

\* the walk of edit_server_status over the payload b: from offset 6, past
\* four NUL-terminated strings
RECURSIVE SkipString(_, _)
SkipString(b, i) ==
    IF i < Len(b) /\ u8_be(b, i) # 0
    THEN CHOOSE r \in {SkipString(b, j) : j \in {i + 1}} : TRUE
    ELSE i + 1

SkipStrings(b) ==
    CHOOSE r \in
        {SkipString(b, i4) :
            i4 \in {CHOOSE r3 \in
                {SkipString(b, i3) :
                    i3 \in {CHOOSE r2 \in
                        {SkipString(b, i2) : i2 \in {SkipString(b, 6)}} : TRUE}} : TRUE}} : TRUE

\* edit_server_status that recomputes the UDP checksum before it looks for the
\* player count
edit_server_status_checksum_first(p) ==
    IF ~is_udp(p) THEN [ok |-> FALSE, p |-> p]
    ELSE LET b == udp_payload(p)
             i == SkipStrings(b)
             q == update_udp_checksum(p)
         IN  IF ~(i + 3 < Len(b)) THEN [ok |-> FALSE, p |-> q]
             ELSE [ok |-> TRUE,
                   p |-> update_udp_checksum([p EXCEPT ![udp_end(p) + i + 2 + 1] = 0])]

\* edit_server_status that clears the byte after the player count as well
edit_server_status_two_bytes(p) ==
    IF ~is_udp(p) THEN [ok |-> FALSE, p |-> p]
    ELSE LET b == udp_payload(p)
             i == SkipStrings(b)
         IN  IF ~(i + 3 < Len(b)) THEN [ok |-> FALSE, p |-> p]
             ELSE [ok |-> TRUE,
                   p |-> update_udp_checksum([p EXCEPT ![udp_end(p) + i + 2 + 1] = 0,
                                                       ![udp_end(p) + i + 3 + 1] = 0])]

\* edit_server_status: ok says Ok(()) was returned, p is the packet afterwards
edit_server_status(p) ==
    IF ~is_udp(p) THEN [ok |-> FALSE, p |-> p]
    ELSE LET b == udp_payload(p)
             i == SkipStrings(b)
         IN  IF ~(i + 3 < Len(b)) THEN [ok |-> FALSE, p |-> p]
             ELSE [ok |-> TRUE,
                   p |-> update_udp_checksum([p EXCEPT ![udp_end(p) + i + 2 + 1] = 0])]

\* the rest of the loop body of process once handle has returned h (or
\* panicked): the rewriter for status replies from B, then output.send
process_handled(h, inp) ==
    LET died == [map |-> h.map, hs |-> h.hs, sent |-> h.sent, panic |-> TRUE,
                 out |-> "none", p |-> inp.p, edit |-> "none"]
    IN  IF h.panic THEN died
        ELSE IF inp.side = "A"
        THEN [map |-> h.map, hs |-> h.hs, sent |-> h.sent, panic |-> FALSE,
              out |-> "ToB", p |-> inp.p, edit |-> "none"]
        ELSE IF is_udp_panics(inp.p) THEN died
        ELSE IF ~is_udp(inp.p)
        THEN [map |-> h.map, hs |-> h.hs, sent |-> h.sent, panic |-> FALSE,
              out |-> "ToA", p |-> inp.p, edit |-> "none"]
        ELSE IF udp_panics(inp.p) THEN died
        ELSE IF source_port(udp(inp.p)) >= STATUS_PORT_MIN
                /\ source_port(udp(inp.p)) <= STATUS_PORT_MAX
        THEN CHOOSE res \in
                 {[map |-> h.map, hs |-> h.hs, sent |-> h.sent, panic |-> FALSE,
                   out |-> "ToA", p |-> e.p, edit |-> IF e.ok THEN "ok" ELSE "err"] :
                     e \in {edit_server_status(inp.p)}} : TRUE
        ELSE [map |-> h.map, hs |-> h.hs, sent |-> h.sent, panic |-> FALSE,
              out |-> "ToA", p |-> inp.p, edit |-> "none"]

\* the body of the loop of process for one input [side, p] at time now_:
\* what is sent on the output channel (out = "none" when the thread panicked
\* before the send), and the connection manager afterwards
process_one(map, hs, inp, now_) ==
    CHOOSE res \in {process_handled(h, inp) : h \in {handle(map, hs, inp.p, inp.side = "B", now_)}} : TRUE

NoCheck == [done |-> FALSE, at |-> 0, before |-> EmptyMap, fired |-> <<>>, after |-> {}]

\* the processor after start_processing_thread, before any input
ProcStart ==
    /\ inHist = <<>>
    /\ inOpen = TRUE
    /\ nProc = 0
    /\ pc = "running"
    /\ outHist = <<>>
    /\ connMap = EmptyMap
    /\ handler = HandlerNew
    /\ now = 0
    /\ lastSent = <<>>
    /\ lastCheck = NoCheck

\* the specifications of one reassembler leave the processor alone
ProcIdle == ProcStart

\* replay-pcap not started
ReplayIdle ==
    /\ capture = <<>>
    /\ pos = 0
    /\ mpc = "read"
    /\ rdBuf = <<>>
    /\ inQ = <<>>
    /\ inTx = TRUE
    /\ ppc = "recv"
    /\ procBuf = <<>>
    /\ outQ = <<>>
    /\ dpc = "recv"
    /\ drBuf = <<>>
    /\ nAlloc = 0
    /\ freed = {}

\* tfh-relay not started
RelayIdle ==
    /\ rdr = [s \in {"A", "B"} |-> "reading"]
    /\ reads = 0
    /\ chan = <<>>
    /\ wpc = "relay"
    /\ written = <<>>

\* no process has exited
ExitIdle == exited = FALSE /\ exitCode = 0

\* no Packet under test
PacketIdle == pkLen = 0 /\ pkRes = [op |-> "default", arg |-> 0, before |-> 0, ok |-> TRUE]

\* no header under test
SumIdle == ipHdr = <<>> /\ ckRes = <<>>

\* the specifications of the library leave the binaries and the Packet alone
AuxIdle == ReplayIdle /\ RelayIdle /\ ExitIdle /\ PacketIdle /\ SumIdle

----------------------------------------------------------------------------
\* SpecStream: one reassembler, fed slices of the sender's stream in any
\* order, with overlaps, gaps and retransmissions, and drained at any time.

\* one framed message as the sender writes it: a 4-byte big-endian length,
\* two bytes, the 4-byte big-endian major opcode, then the body
Frame(h0, h1, major, body) ==
    <<0, 0, 0, 6 + Len(body), h0, h1, 0, 0, 0, major>> \o body

\* a framed message with major opcode 0x20: the 4-byte little-endian minor
\* opcode follows the major
Frame32(h0, h1, minor, body) ==
    <<0, 0, 0, 10 + Len(body), h0, h1, 0, 0, 0, 32, minor, 0, 0, 0>> \o body

\* the prologue byte and two well-formed messages
StreamGood == <<85>> \o Frame(1, 2, 10, <<>>) \o Frame(3, 4, 5, <<7>>)
\* the prologue byte, a message with a minor opcode and a plain one
StreamMinor == <<85>> \o Frame32(1, 2, 9, <<>>) \o Frame(3, 4, 10, <<>>)
\* the prologue byte and a frame whose length field is 0
StreamBad == <<85, 0, 0, 0, 0, 9, 9, 0, 0, 0, 10, 0>>

GoodStreams == {StreamGood, StreamMinor}
Streams == GoodStreams \cup {StreamBad}

\* where datagrams begin and end
CutPoints(s) == {0, 1, 5, 11, Len(s)}

\* values of your_seq
Acks == {1, 2}

\* the datagrams the sender can emit for stream s
Datagrams(s) ==
    {[seq |-> a, ack |-> k, data |-> Slice(s, a, b)] :
        <<a, b, k>> \in {t \in CutPoints(s) \X CutPoints(s) \X Acks : t[1] <= t[2]}}

NoDatagram == [seq |-> 0, ack |-> 0, data |-> <<>>]

NoRes == [op |-> "new", kind |-> "None", prologue |-> FALSE, msg |-> NoMessage,
          d |-> NoDatagram]

ReorderIdle == pending = {} /\ delivered = <<>> /\ msgs = <<>>

StreamInit ==
    /\ st = TfhStreamNew
    /\ sRes = NoRes
    /\ feeds = 0
    /\ dupFeed = FALSE
    /\ sDead = FALSE
    /\ stream \in Streams
    /\ ReorderIdle
    /\ ProcIdle
    /\ AuxIdle

\* a call of handle_packet with datagram d
SHandlePacket(d) ==
    /\ ~sDead
    /\ feeds < MaxFeeds
    /\ st' = handle_packet(st, d)
    /\ sRes' = [op |-> "handle_packet", kind |-> "None", prologue |-> FALSE,
                msg |-> NoMessage, d |-> d]
    /\ feeds' = feeds + 1
    /\ dupFeed' = (feeds > 0 /\ sRes.d = d /\ next_message(st).kind = "None")
    /\ UNCHANGED <<sDead, stream, pending, delivered, msgs>>
    /\ UNCHANGED procVars
    /\ UNCHANGED auxVars

\* a call of next_message
SNextMessage ==
    /\ ~sDead
    /\ LET r == next_message(st)
       IN  /\ st' = r.s
           /\ sDead' = (r.kind = "panic")
           /\ sRes' = [op |-> "next_message", kind |-> r.kind, prologue |-> r.prologue,
                       msg |-> r.msg, d |-> sRes.d]
    /\ UNCHANGED <<feeds, dupFeed, stream, pending, delivered, msgs>>
    /\ UNCHANGED procVars
    /\ UNCHANGED auxVars

StreamNext ==
    \/ \E d \in Datagrams(stream) : SHandlePacket(d)
    \/ SNextMessage

SpecStream == StreamInit /\ [][StreamNext]_vars

----------------------------------------------------------------------------
\* Properties of one reassembler (SpecStream)

\* the step is a call of next_message that returned a message / consumed bytes
Consuming == sRes'.op = "next_message" /\ sRes'.kind = "Some"

\* the highest ack among the chunks whose byte range meets [from, to)
MaxAckOver(chunks, from, to) ==
    SetMax({0} \cup {chunks[k].ack : k \in {c \in DOMAIN chunks :
                          Max(c, from) < Min(c + chunks[c].len, to)}})

\* C5 (as claimed): duplicate idempotence.  A datagram fed again to a drained
\* reassembler (synced or not) makes next_message return no message: feeding
\* it N times emits what feeding it once emits.
C5_DuplicateEmitsNothing ==
    ~(dupFeed /\ sRes.op = "next_message" /\ sRes.kind = "Some")

\* C6: reassembler monotonicity.  Once a reassembler has taken a position
\* (start is no longer the Seq(!0) it is created with), no call decreases
\* start, and no call other than a consuming next_message decreases
\* count_avail().
C6_StartNeverDecreases ==
    [][/\ (st.start # SeqNotSet => st'.start >= st.start)
       /\ (~Consuming => count_avail(st') >= count_avail(st))]_vars

\* C9 (as claimed): the ack of a framed message is the highest peer_ack of
\* the chunks whose byte range meets the consumed range [start, start+4+len).
C9_AckIsMaxOverConsumedRange ==
    [][(Consuming /\ ~sRes'.prologue)
          => sRes'.msg.ack = MaxAckOver(st.chunks, st.start, st'.start)]_vars

\* C10: count_avail() never exceeds the length of the buffer.
C10_AvailWithinBuffer == count_avail(st) <= Len(st.buf)

\* C10 witness: an unsynced reassembler that re-adopted its start on an empty
\* buffer (a chunk recorded before the new start remains) and holds a
\* complete message.
C10_Witness ==
    /\ ~st.sync
    /\ sRes.op = "handle_packet"
    /\ \E k \in DOMAIN st.chunks : k > st.start + Len(st.buf)
    /\ count_avail(st) >= 10
    /\ next_message(st).kind = "Some"

----------------------------------------------------------------------------
\* SpecReorder: the sender's stream is cut into non-empty, non-overlapping
\* datagrams that cover it, and the network delivers them in any order to one
\* reassembler, which is drained at any time.

\* the cut points strictly inside the stream
InnerCuts(s) == {c \in CutPoints(s) : 0 < c /\ c < Len(s)}

\* the datagrams of the partition of s at the cut points in cuts; your_seq
\* grows with my_seq, as the acks of a sender that keeps receiving do
Partition(s, cuts) ==
    LET pts == cuts \cup {0, Len(s)}
    IN  {[seq |-> a, ack |-> a + 1,
          data |-> Slice(s, a, SetMin({b \in pts : b > a}))] : a \in pts \ {Len(s)}}

StreamIdle == sRes = NoRes /\ feeds = 0 /\ dupFeed = FALSE

ReorderInit ==
    /\ st = TfhStreamNew
    /\ sDead = FALSE
    /\ stream \in GoodStreams
    /\ \E cuts \in SUBSET InnerCuts(stream) : pending = Partition(stream, cuts)
    /\ delivered = <<>>
    /\ msgs = <<>>
    /\ StreamIdle
    /\ ProcIdle
    /\ AuxIdle

\* the network delivers datagram d: handle_packet
Deliver(d) ==
    /\ ~sDead
    /\ d \in pending
    /\ st' = handle_packet(st, d)
    /\ pending' = pending \ {d}
    /\ delivered' = Append(delivered, d)
    /\ UNCHANGED <<sRes, feeds, dupFeed, sDead, stream, msgs>>
    /\ UNCHANGED procVars
    /\ UNCHANGED auxVars

\* one call of next_message that returns a message or panics
RDrain ==
    /\ ~sDead
    /\ LET r == next_message(st)
       IN  /\ r.kind # "None"
           /\ st' = r.s
           /\ sDead' = (r.kind = "panic")
           /\ msgs' = IF r.kind = "Some" THEN Append(msgs, r.msg) ELSE msgs
    /\ UNCHANGED <<sRes, feeds, dupFeed, stream, pending, delivered>>
    /\ UNCHANGED procVars
    /\ UNCHANGED auxVars

ReorderNext ==
    \/ \E d \in pending : Deliver(d)
    \/ RDrain

SpecReorder == ReorderInit /\ [][ReorderNext]_vars

\* next_message called until it returns None or panics
RECURSIVE DrainAll(_, _)
DrainAll(s, out) ==
    LET r == next_message(s)
    IN  IF r.kind = "Some" THEN DrainAll(r.s, Append(out, r.msg))
        ELSE [s |-> s, msgs |-> out, dead |-> r.kind = "panic"]

\* the datagrams ds fed in the order of their seq, drained after each
RECURSIVE InOrderRun(_, _, _)
InOrderRun(ds, s, out) ==
    IF ds = {} THEN out
    ELSE LET d == CHOOSE x \in ds : \A y \in ds : x.seq <= y.seq
             r == DrainAll(handle_packet(s, d), out)
         IN  IF r.dead THEN r.msgs ELSE InOrderRun(ds \ {d}, r.s, r.msgs)

DeliveredSet == {delivered[i] : i \in 1..Len(delivered)}

\* everything was delivered and drained, or the reassembler panicked
ReorderDone == sDead \/ (pending = {} /\ next_message(st).kind = "None")

PrologueMessage(b) ==
    [major |-> 0, minor |-> 0, dir |-> 255, ack |-> 0, len |-> 1, body |-> <<b>>]

\* C11: stream prologue.  At start = 0 with a byte available next_message
\* returns the prologue message and moves start to 1; among the messages of
\* one reassembler the prologue message comes at most once, and first.
C11_PrologueOnceAndFirst ==
    /\ (st.start = 0 /\ count_avail(st) >= 1) =>
           /\ next_message(st).kind = "Some"
           /\ next_message(st).msg = PrologueMessage(st.buf[1])
           /\ next_message(st).s.start = 1
    /\ \A i \in 1..Len(msgs) : msgs[i] = PrologueMessage(stream[1]) => i = 1

----------------------------------------------------------------------------
\* SpecProc: the processor thread of start_processing_thread.  The proxy
\* threads send Inputs on the input channel, the processor takes them one at
\* a time, and the clock advances between any two steps.

Client1 == <<10, 0, 0, 1>>
Client2 == <<10, 0, 0, 2>>
Server == <<10, 0, 0, 9>>

\* an IPv4 packet with a 20-byte header that carries a UDP datagram; both
\* checksums are left 0
Ipv4Udp(src, dst, sport, dport, payload) ==
    <<69, 0>> \o U16Bytes(28 + Len(payload)) \o <<0, 0, 0, 0, 64, 17, 0, 0>>
    \o src \o dst
    \o U16Bytes(sport) \o U16Bytes(dport) \o U16Bytes(8 + Len(payload)) \o <<0, 0>>
    \o payload

\* the UDP payload of a TFH datagram
TfhPayload(seq, ack, data) == <<0, 0, 0, seq, 0, 0, 0, ack>> \o data

\* the login message: major opcode 10, the player name in body[12 .. 76]
LoginFrame(name) == Frame(1, 2, 10, Zeros(12) \o <<name>> \o Zeros(63))

\* client to server: the prologue byte and the login message
PktLogin(c, name) ==
    Ipv4Udp(c, Server, 4000, 27015, TfhPayload(0, 0, <<85>> \o LoginFrame(name)))
\* client to server: the prologue byte and a frame whose length field is 0
PktBadFrame == Ipv4Udp(Client1, Server, 4000, 27015, TfhPayload(0, 0, <<85, 0, 0, 0, 0>>))
\* server to client: the prologue byte and one message
PktReply == Ipv4Udp(Server, Client1, 27015, 4000,
                     TfhPayload(0, 1, <<85>> \o Frame(3, 4, 5, <<7>>)))
\* server to client: a status reply with four strings and the counts behind them
PktStatus == Ipv4Udp(Server, Client1, 27015, 4000,
                      <<0, 0, 0, 9, 0, 0, 97, 0, 98, 0, 99, 0, 100, 0, 1, 2, 3, 4, 5>>)
\* server to client: a status reply that ends inside its strings
PktStatusShort == Ipv4Udp(Server, Client1, 27015, 4000,
                           <<0, 0, 0, 9, 0, 0, 0, 0, 115, 115>>)
\* a UDP datagram of another protocol
PktDns == Ipv4Udp(Server, Client1, 53, 4000, <<1, 2, 3>>)
\* an IPv4 packet that is not UDP (protocol 6)
PktTcp == [Ipv4Udp(Server, Client1, 27015, 4000, <<1, 2, 3>>) EXCEPT ![10] = 6]
\* a packet of version 6
PktV6 == <<96, 0, 0, 0>>
\* a packet that ends inside the IPv4 header it declares
PktShortIp == <<69, 0, 0, 0>>
\* a UDP packet that ends inside its UDP header
PktShortUdp == SubSeq(Ipv4Udp(Server, Client1, 27015, 4000, <<>>), 1, 24)
\* a packet with no bytes
PktEmpty == <<>>
\* a UDP datagram whose first byte says version 4 with an IHL of 2 words
PktLowIhl == [Ipv4Udp(Client1, Server, 4000, 5000, <<1, 2, 3>>) EXCEPT ![1] = 66]

\* what the proxy threads can send
Inputs ==
    {[side |-> "A", p |-> q] :
        q \in {PktLogin(Client1, 65), PktLogin(Client2, 66), PktBadFrame, PktDns, PktV6,
               PktShortIp, PktEmpty, PktLowIhl}}
    \cup
    {[side |-> "B", p |-> q] :
        q \in {PktReply, PktStatus, PktStatusShort, PktDns, PktTcp, PktShortUdp, PktEmpty}}

\* how far the clock advances at once: 30 s, 35 s, and half a second less than
\* CONN_TIMEOUT
TickSteps == {30 * TicksPerSec, 35 * TicksPerSec, CONN_TIMEOUT * TicksPerSec - 1}

ProcInit ==
    /\ ProcStart
    /\ st = TfhStreamNew
    /\ sRes = NoRes
    /\ feeds = 0
    /\ dupFeed = FALSE
    /\ sDead = FALSE
    /\ stream = <<>>
    /\ ReorderIdle
    /\ AuxIdle

\* a proxy thread sends an Input
Send(inp) ==
    /\ inOpen
    /\ Len(inHist) < MaxInputs
    /\ inHist' = Append(inHist, inp)
    /\ UNCHANGED <<inOpen, nProc, pc, outHist, connMap, handler, now, lastSent, lastCheck>>
    /\ UNCHANGED streamVars
    /\ UNCHANGED auxVars

\* the last Sender of the input channel is dropped
CloseInput ==
    /\ inOpen
    /\ inOpen' = FALSE
    /\ UNCHANGED <<inHist, nProc, pc, outHist, connMap, handler, now, lastSent, lastCheck>>
    /\ UNCHANGED streamVars
    /\ UNCHANGED auxVars

\* the clock advances while the processor thread lives
Tick(dt) ==
    /\ pc = "running"
    /\ now + dt <= MaxNow
    /\ now' = now + dt
    /\ UNCHANGED <<inHist, inOpen, nProc, pc, outHist, connMap, handler, lastSent, lastCheck>>
    /\ UNCHANGED streamVars
    /\ UNCHANGED auxVars

\* the file system starts or stops failing (the disk fills up, the logs
\* directory goes away or comes back)
IoChange ==
    /\ pc = "running"
    /\ handler' = [handler EXCEPT !.io = IF @ = "ok" THEN "fail" ELSE "ok"]
    /\ UNCHANGED <<inHist, inOpen, nProc, pc, outHist, connMap, now, lastSent, lastCheck>>
    /\ UNCHANGED streamVars
    /\ UNCHANGED auxVars

\* one turn of the loop of process: the next Input is received and handled
ProcStep ==
    /\ pc = "running"
    /\ nProc < Len(inHist)
    /\ \E r \in {process_one(connMap, handler, inHist[nProc + 1], now)} :
           /\ nProc' = nProc + 1
           /\ connMap' = r.map
           /\ handler' = r.hs
           /\ lastSent' = r.sent
           /\ pc' = IF r.panic THEN "panicked" ELSE "running"
           /\ outHist' = IF r.out = "none" THEN outHist
                         ELSE Append(outHist, [out |-> r.out, p |-> r.p,
                                               src |-> nProc + 1, edit |-> r.edit])
    /\ UNCHANGED <<inHist, inOpen, now, lastCheck>>
    /\ UNCHANGED streamVars
    /\ UNCHANGED auxVars

\* the input channel is closed and empty: the loop ends, check_timeout runs
\* once and the thread returns
ProcFinish ==
    /\ pc = "running"
    /\ ~inOpen
    /\ nProc = Len(inHist)
    /\ \E order \in Orders(DOMAIN connMap) :
          \E r \in {check_timeout(connMap, handler, now, order)} :
              /\ connMap' = r.map
              /\ handler' = r.hs
              /\ lastCheck' = [done |-> TRUE, at |-> now,
                               before |-> [k \in DOMAIN connMap |-> connMap[k].last_packet],
                               fired |-> r.fired, after |-> DOMAIN r.map]
    /\ pc' = "done"
    /\ UNCHANGED <<inHist, inOpen, nProc, outHist, now, lastSent>>
    /\ UNCHANGED streamVars
    /\ UNCHANGED auxVars

ProcNext ==
    \/ \E inp \in Inputs : Send(inp)
    \/ CloseInput
    \/ \E dt \in TickSteps : Tick(dt)
    \/ IoChange
    \/ ProcStep
    \/ ProcFinish

SpecProc == ProcInit /\ [][ProcNext]_vars

\* ENABLED <<ProcStep>>_vars: the loop of process has an Input to receive
ProcStepEnabled == pc = "running" /\ nProc < Len(inHist)

\* the processor thread is scheduled and the clock keeps running; nothing
\* obliges the proxy threads to send or to stop.  The first conjunct is
\* WF_vars(ProcStep) with the enabling condition of ProcStep written out.
FairSpecProc ==
    /\ SpecProc
    /\ <>[]ProcStepEnabled => []<><<ProcStep>>_vars
    /\ WF_vars(ProcFinish)
    /\ WF_vars(\E dt \in TickSteps : Tick(dt))


----------------------------------------------------------------------------
\* Properties of the processor

Opposite(side) == IF side = "A" THEN "ToB" ELSE "ToA"

\* C1: every input the processor has received has produced exactly one
\* output, the i-th output comes from the i-th input and goes to the other
\* side: nothing is dropped, duplicated, reordered or sent back
C1_OneOutputPerInputInOrder ==
    /\ Len(outHist) = nProc
    /\ \A i \in 1..Len(outHist) :
          /\ outHist[i].src = i
          /\ outHist[i].out = Opposite(inHist[i].side)

\* C2: when edit_server_status returns Err for a packet from B, the packet
\* sent as ToA is the received packet, byte for byte
C2_FailedRewriteForwardsUnchanged ==
    \A i \in 1..Len(outHist) :
        outHist[i].edit = "err" =>
            /\ outHist[i].out = "ToA"
            /\ outHist[i].p = inHist[outHist[i].src].p

\* a status reply on which the rewriter failed has been forwarded
C2_Witness ==
    \E i \in 1..Len(outHist) :
        /\ outHist[i].edit = "err"
        /\ inHist[outHist[i].src] = [side |-> "B", p |-> PktStatusShort]

\* C3: no input makes the processor thread or next_message panic
C3_NoMalformedInputIsFatal == pc # "panicked" /\ ~sDead

\* the connections whose last packet is at least CONN_TIMEOUT seconds old at
\* time at_, given the last_packet of each
Expired(before, at_) ==
    {k \in DOMAIN before : at_ - before[k] >= CONN_TIMEOUT * TicksPerSec}

\* C7: a call of check_timeout fires on_timeout exactly once for every
\* connection whose last packet is at least 60 s old and removes it, and
\* fires nothing for the others and keeps them
C7_ConnectionTtl ==
    lastCheck.done =>
        LET old == Expired(lastCheck.before, lastCheck.at)
        IN  /\ lastCheck.after = DOMAIN lastCheck.before \ old
            /\ DOMAIN connMap = lastCheck.after
            /\ \A k \in DOMAIN lastCheck.before :
                  Cardinality({i \in 1..Len(lastCheck.fired) : lastCheck.fired[i] = k})
                      = IF k \in old THEN 1 ELSE 0

\* check_timeout ran 65 s after the last packet of one connection and 35 s
\* after the last packet of another
C7_Witness ==
    /\ lastCheck.done
    /\ \E a, b \in DOMAIN lastCheck.before :
          /\ lastCheck.at - lastCheck.before[a] = 65 * TicksPerSec
          /\ lastCheck.at - lastCheck.before[b] = 35 * TicksPerSec
          /\ lastCheck.fired = <<a>>
          /\ lastCheck.after = {b}

\* the connections the Inputs can open
Conns ==
    {from_udp_packet(i.p, i.side = "B") :
        i \in {x \in Inputs : ~is_tfh_stream_panics(x.p) /\ is_tfh_stream(x.p)}}

\* C8: while the processor runs and its input channel stays open, a
\* connection whose last packet is at least 60 s old is eventually evicted
C8_IdleConnectionEventuallyEvicted ==
    \A ct \in Conns :
        (/\ ct \in DOMAIN connMap
         /\ now - connMap[ct].last_packet >= CONN_TIMEOUT * TicksPerSec
         /\ pc = "running"
         /\ inOpen)
        ~> (ct \notin DOMAIN connMap \/ ~inOpen \/ pc # "running")


\* the inputs handled so far that reached a reassembler
Handled(side) ==
    {i \in 1..nProc : /\ inHist[i].side = side
                      /\ ~is_tfh_stream_panics(inHist[i].p)
                      /\ is_tfh_stream(inHist[i].p)
                      /\ ~tfh_stream_panics(inHist[i].p)}

\* q travels the connection of p in the other direction
Mirrors(p, q) ==
    /\ u32_be(ipv4(p), 12) = u32_be(ipv4(q), 16)
    /\ u32_be(ipv4(p), 16) = u32_be(ipv4(q), 12)
    /\ source_port(udp(p)) = dest_port(udp(q))
    /\ dest_port(udp(p)) = source_port(udp(q))

\* C12: a datagram from A (flip = false) and the datagram of the same
\* connection from B (flip = true) get the same ConnTuple, the sender of the
\* datagram from A first, and the map holds one entry for both whose ab and ba
\* reassemblers each took their datagram
C12_BothDirectionsShareOneEntry ==
    pc = "running" =>
        \A i \in Handled("A"), j \in Handled("B") :
            Mirrors(inHist[i].p, inHist[j].p) =>
                LET ct == from_udp_packet(inHist[i].p, FALSE)
                IN  /\ ct = from_udp_packet(inHist[j].p, TRUE)
                    /\ ct = <<u32_be(ipv4(inHist[i].p), 12), source_port(udp(inHist[i].p)),
                              u32_be(ipv4(inHist[i].p), 16), dest_port(udp(inHist[i].p))>>
                    /\ ct \in DOMAIN connMap
                    /\ <<ct[3], ct[4], ct[1], ct[2]>> \notin DOMAIN connMap
                    /\ connMap[ct].ab.start # SeqNotSet
                    /\ connMap[ct].ba.start # SeqNotSet

\* the login of client 1 and the server's reply to it were both handled
C12_Witness ==
    /\ pc = "running"
    /\ nProc = 2
    /\ \E i \in Handled("A"), j \in Handled("B") :
          /\ inHist[i].p = PktLogin(Client1, 65)
          /\ inHist[j].p = PktReply


\* the messages ms with dir set to dir
Stamped(ms, dir) == [i \in 1..Len(ms) |-> [ms[i] EXCEPT !.dir = dir]]

\* C13: the messages a handle call passes to on_message are those
\* next_message yields from the A->B reassembler with dir = 0, followed by
\* those from the B->A reassembler with dir = 1; no message the handler was
\* given has another dir
C13_DirStampedByReassembler ==
    [][(/\ nProc' = nProc + 1
        /\ pc' = "running"
        /\ ~is_tfh_stream_panics(inHist[nProc + 1].p)
        /\ is_tfh_stream(inHist[nProc + 1].p)
        /\ ~tfh_stream_panics(inHist[nProc + 1].p))
         => LET inp == inHist[nProc + 1]
                ct == from_udp_packet(inp.p, inp.side = "B")
                sc == IF ct \in DOMAIN connMap THEN connMap[ct] ELSE StreamConnNew(now)
                d == tfh_datagram(inp.p)
                ab1 == IF inp.side = "A" THEN handle_packet(sc.ab, d) ELSE sc.ab
                ba1 == IF inp.side = "B" THEN handle_packet(sc.ba, d) ELSE sc.ba
            IN  /\ lastSent' = Stamped(DrainAll(ab1, <<>>).msgs, 0)
                                  \o Stamped(DrainAll(ba1, <<>>).msgs, 1)
                /\ \A c \in DOMAIN handler'.logs :
                      \A i \in 1..Len(handler'.logs[c]) : handler'.logs[c][i].dir \in {0, 1}]_vars

\* the handler was given messages of both directions of one connection
C13_Witness ==
    \E c \in DOMAIN handler.logs :
        /\ \E i \in 1..Len(handler.logs[c]) : handler.logs[c][i].dir = 0
        /\ \E i \in 1..Len(lastSent) : lastSent[i].dir = 1 /\ lastSent[i].major = 5


----------------------------------------------------------------------------
\* Packet as a container (src/src/packet.rs): the capacity and the
\* operations that set len.  Here a Packet is its len; the operations return
\* [ok, len], ok = FALSE when the assert of the operation fails.

PACKET_CAP == 1500

\* Packet::default
default == [ok |-> TRUE, len |-> 0]

\* Packet::zeroed(n)
zeroed(n) == IF n <= PACKET_CAP THEN [ok |-> TRUE, len |-> n] ELSE [ok |-> FALSE, len |-> 0]

\* push without the assert
push_unchecked(len) == [ok |-> TRUE, len |-> len + 1]

\* Packet::push on a packet of length len
push(len) == IF len < PACKET_CAP THEN [ok |-> TRUE, len |-> len + 1] ELSE [ok |-> FALSE, len |-> len]

\* Packet::extend and ::extend_from_slice with n items: push after push,
\* until one fails
RECURSIVE extend(_, _)
extend(len, n) ==
    IF n = 0 THEN [ok |-> TRUE, len |-> len]
    ELSE CHOOSE res \in {IF r.ok THEN extend(r.len, n - 1) ELSE r : r \in {push(len)}} : TRUE

extend_from_slice(len, n) == extend(len, n)

\* Packet::truncate(n) on a packet of length len
truncate(len, n) == IF n <= len THEN [ok |-> TRUE, len |-> n] ELSE [ok |-> FALSE, len |-> len]

----------------------------------------------------------------------------
\* The capture file reader (src/src/pcap.rs).  A record of the file is
\* [inc_len, have, ethertype, data]: the inc_len of its packet header, the
\* number of bytes of the record that the file really holds behind that
\* header, the ethertype of the frame, and the bytes behind the Ethernet
\* header (left empty where try_read never looks at them).

\* Pcap::try_read on record rec: "err" (a read_exact failed), "none"
\* (skipped), "panic" (the assert of Packet::zeroed) or "some" with the Packet
try_read(rec) ==
    IF rec.inc_len < 14
    THEN [kind |-> IF rec.have < rec.inc_len THEN "err" ELSE "none", p |-> <<>>]
    ELSE IF rec.have < 14 THEN [kind |-> "err", p |-> <<>>]
    ELSE IF rec.ethertype # 2048 /\ rec.ethertype # 34525
    THEN [kind |-> IF rec.have < rec.inc_len THEN "err" ELSE "none", p |-> <<>>]
    ELSE IF ~zeroed(rec.inc_len - 14).ok THEN [kind |-> "panic", p |-> <<>>]
    ELSE IF rec.have < rec.inc_len THEN [kind |-> "err", p |-> <<>>]
    ELSE [kind |-> "some", p |-> rec.data]

\* Pcap::read on the file f with n records consumed: try_read until it
\* returns a Packet or fails; at the end of the file the read of the next
\* packet header fails
RECURSIVE PcapRead(_, _)
PcapRead(f, n) ==
    IF n >= Len(f) THEN [kind |-> "err", p |-> <<>>, pos |-> n]
    ELSE CHOOSE res \in
             {IF r.kind = "none" THEN PcapRead(f, n + 1)
              ELSE [kind |-> r.kind, p |-> r.p, pos |-> n + 1] : r \in {try_read(f[n + 1])}} : TRUE

----------------------------------------------------------------------------
\* SpecReplay: replay-pcap (src/src/bin/replay-pcap.rs).  The main thread
\* reads the capture and sends Inputs, the processor thread of
\* start_processing_thread handles them, a third thread drains the output
\* channel.  The replay is far shorter than CONN_TIMEOUT: the clock stands.

\* records of a capture
MaxRecords == 2

RecIp(q) == [inc_len |-> 14 + Len(q), have |-> 14 + Len(q), ethertype |-> 2048, data |-> q]
RecV6 == [inc_len |-> 14 + Len(PktV6), have |-> 14 + Len(PktV6), ethertype |-> 34525, data |-> PktV6]
RecArp == [inc_len |-> 42, have |-> 42, ethertype |-> 2054, data |-> <<>>]
RecShort == [inc_len |-> 4, have |-> 4, ethertype |-> 0, data |-> <<>>]
\* an IPv4 frame longer than a Packet
RecJumbo == [inc_len |-> 14 + PACKET_CAP + 1, have |-> 14 + PACKET_CAP + 1,
             ethertype |-> 2048, data |-> <<>>]
\* a record the file ends in
RecCut == [RecIp(PktReply) EXCEPT !.have = 20]
\* a datagram between two other hosts
PktOther == Ipv4Udp(Client1, Client2, 4000, 4000, <<1>>)

Records ==
    {RecIp(q) : q \in {PktLogin(Client1, 65), PktReply, PktBadFrame, PktOther,
                       PktShortIp, PktEmpty}}
    \cup {RecV6, RecArp, RecShort, RecJumbo}

\* every record is whole
WellFormed(f) == \A i \in 1..Len(f) : f[i].have = f[i].inc_len

\* the capture files: whole records, then possibly one the file ends in
Captures ==
    LET Whole == UNION {[1..n -> Records] : n \in 0..MaxRecords}
    IN  Whole \cup {Append(f, RecCut) : f \in {g \in Whole : Len(g) < MaxRecords}}

\* Ipv4Header::source_ip, ::dest_ip as the four bytes
source_ip(h) == Slice(h, 12, 16)
dest_ip(h) == Slice(h, 16, 20)

\* the Packets held in a channel or by a thread
Ids(q) == {q[i].id : i \in 1..Len(q)}

ReplayInit ==
    /\ capture \in Captures
    /\ pos = 0
    /\ mpc = "read"
    /\ rdBuf = <<>>
    /\ inQ = <<>>
    /\ inTx = TRUE
    /\ ppc = "recv"
    /\ procBuf = <<>>
    /\ outQ = <<>>
    /\ dpc = "recv"
    /\ drBuf = <<>>
    /\ nAlloc = 0
    /\ freed = {}
    /\ ProcStart
    /\ RelayIdle /\ ExitIdle /\ PacketIdle /\ SumIdle
    /\ st = TfhStreamNew
    /\ sRes = NoRes
    /\ feeds = 0
    /\ dupFeed = FALSE
    /\ sDead = FALSE
    /\ stream = <<>>
    /\ ReorderIdle

\* what SpecReplay leaves alone
ReplayRest ==
    /\ UNCHANGED <<inHist, inOpen, nProc, pc, outHist, now>>
    /\ UNCHANGED <<streamVars, relayVars, packetVars, sumVars>>

\* main: pcap.read and the choice of the Input.  An error returns from
\* real_main, a panic unwinds it; both drop inp_send.
MRead ==
    /\ ~exited
    /\ mpc = "read"
    /\ \E r \in {PcapRead(capture, pos)} :
          /\ pos' = r.pos
          /\ IF r.kind = "err"
             THEN /\ mpc' = "returned" /\ inTx' = FALSE
                  /\ UNCHANGED <<rdBuf, nAlloc, freed>>
             ELSE IF r.kind = "panic"
             THEN /\ mpc' = "panicked" /\ inTx' = FALSE
                  /\ UNCHANGED <<rdBuf, nAlloc, freed>>
             ELSE /\ nAlloc' = nAlloc + 1
                  /\ IF is_ipv4_panics(r.p) \/ (is_ipv4(r.p) /\ ipv4_panics(r.p))
                     THEN /\ mpc' = "panicked" /\ inTx' = FALSE
                          /\ freed' = freed \cup {nAlloc + 1}
                          /\ UNCHANGED rdBuf
                     ELSE IF ~is_ipv4(r.p)
                             \/ (dest_ip(ipv4(r.p)) # Server /\ source_ip(ipv4(r.p)) # Server)
                     THEN /\ freed' = freed \cup {nAlloc + 1}
                          /\ UNCHANGED <<mpc, inTx, rdBuf>>
                     ELSE /\ rdBuf' = <<[side |-> IF dest_ip(ipv4(r.p)) = Server
                                                  THEN "A" ELSE "B",
                                         p |-> r.p, id |-> nAlloc + 1]>>
                          /\ mpc' = "send"
                          /\ UNCHANGED <<inTx, freed>>
    /\ UNCHANGED <<capture, inQ, ppc, procBuf, outQ, dpc, drBuf, exitVars>>
    /\ UNCHANGED <<connMap, handler, lastSent, lastCheck>>
    /\ ReplayRest

\* a send that hands the Input over and still keeps it
MSend_keeps ==
    /\ ~exited
    /\ mpc = "send"
    /\ mpc' = "read"
    /\ inQ' = inQ \o rdBuf
    /\ UNCHANGED <<capture, pos, rdBuf, inTx, ppc, procBuf, outQ, dpc, drBuf, nAlloc, freed, exitVars>>
    /\ UNCHANGED <<connMap, handler, lastSent, lastCheck>>
    /\ ReplayRest

\* main: inp_send.send(inp).unwrap(); the send fails when the processor
\* thread is gone
MSend ==
    /\ ~exited
    /\ mpc = "send"
    /\ IF ppc \in {"done", "panicked"}
       THEN /\ mpc' = "panicked" /\ inTx' = FALSE
            /\ freed' = freed \cup Ids(rdBuf)
            /\ UNCHANGED inQ
       ELSE /\ mpc' = "read"
            /\ inQ' = inQ \o rdBuf
            /\ UNCHANGED <<inTx, freed>>
    /\ rdBuf' = <<>>
    /\ UNCHANGED <<capture, pos, ppc, procBuf, outQ, dpc, drBuf, nAlloc, exitVars>>
    /\ UNCHANGED <<connMap, handler, lastSent, lastCheck>>
    /\ ReplayRest

\* main has left real_main: process::exit(1) after an error, the exit of the
\* runtime after a panic of the main thread
MExit ==
    /\ ~exited
    /\ mpc \in {"returned", "panicked"}
    /\ exited' = TRUE
    /\ exitCode' = IF mpc = "returned" THEN 1 ELSE 101
    /\ UNCHANGED replayVars
    /\ UNCHANGED <<connMap, handler, lastSent, lastCheck>>
    /\ ReplayRest

\* the processor: input.iter() yields the next Input
PRecv ==
    /\ ~exited
    /\ ppc = "recv"
    /\ inQ # <<>>
    /\ procBuf' = <<Head(inQ)>>
    /\ inQ' = Tail(inQ)
    /\ ppc' = "have"
    /\ UNCHANGED <<capture, pos, mpc, rdBuf, inTx, outQ, dpc, drBuf, nAlloc, freed, exitVars>>
    /\ UNCHANGED <<connMap, handler, lastSent, lastCheck>>
    /\ ReplayRest

\* the processor: the body of the loop of process.  A panic drops the Input,
\* the input Receiver with what is queued in it, and the output Sender.
PHandle ==
    /\ ~exited
    /\ ppc = "have"
    /\ \E r \in {process_one(connMap, handler, procBuf[1], now)} :
          /\ connMap' = r.map
          /\ handler' = r.hs
          /\ lastSent' = r.sent
          /\ IF r.panic \/ dpc = "done"
             THEN /\ ppc' = "panicked"
                  /\ freed' = freed \cup Ids(procBuf) \cup Ids(inQ)
                  /\ inQ' = <<>>
                  /\ UNCHANGED outQ
             ELSE /\ ppc' = "recv"
                  /\ outQ' = Append(outQ, [out |-> r.out, p |-> r.p, id |-> procBuf[1].id])
                  /\ UNCHANGED <<freed, inQ>>
    /\ procBuf' = <<>>
    /\ UNCHANGED <<capture, pos, mpc, rdBuf, inTx, dpc, drBuf, nAlloc, exitVars>>
    /\ UNCHANGED lastCheck
    /\ ReplayRest

\* the processor: the input channel is closed and empty, check_timeout runs
\* once and process returns, which drops the output Sender
PFinish ==
    /\ ~exited
    /\ ppc = "recv"
    /\ inQ = <<>>
    /\ ~inTx
    /\ \E order \in Orders(DOMAIN connMap) :
          \E r \in {check_timeout(connMap, handler, now, order)} :
              /\ connMap' = r.map
              /\ handler' = r.hs
              /\ lastCheck' = [done |-> TRUE, at |-> now,
                               before |-> [k \in DOMAIN connMap |-> connMap[k].last_packet],
                               fired |-> r.fired, after |-> DOMAIN r.map]
    /\ ppc' = "done"
    /\ UNCHANGED <<capture, pos, mpc, rdBuf, inQ, inTx, procBuf, outQ, dpc, drBuf, nAlloc, freed, exitVars>>
    /\ UNCHANGED lastSent
    /\ ReplayRest

\* the drainer: out_recv.iter() yields the next Output
DRecv ==
    /\ ~exited
    /\ dpc = "recv"
    /\ outQ # <<>>
    /\ drBuf' = <<Head(outQ)>>
    /\ outQ' = Tail(outQ)
    /\ dpc' = "have"
    /\ UNCHANGED <<capture, pos, mpc, rdBuf, inQ, inTx, ppc, procBuf, nAlloc, freed, exitVars>>
    /\ UNCHANGED <<connMap, handler, lastSent, lastCheck>>
    /\ ReplayRest

\* the drainer: the body of its loop ignores the Output, which drops it
DDrop ==
    /\ ~exited
    /\ dpc = "have"
    /\ freed' = freed \cup Ids(drBuf)
    /\ drBuf' = <<>>
    /\ dpc' = "recv"
    /\ UNCHANGED <<capture, pos, mpc, rdBuf, inQ, inTx, ppc, procBuf, outQ, nAlloc, exitVars>>
    /\ UNCHANGED <<connMap, handler, lastSent, lastCheck>>
    /\ ReplayRest

\* the drainer: the output channel is closed and empty, the thread returns
DEnd ==
    /\ ~exited
    /\ dpc = "recv"
    /\ outQ = <<>>
    /\ ppc \in {"done", "panicked"}
    /\ dpc' = "done"
    /\ UNCHANGED <<capture, pos, mpc, rdBuf, inQ, inTx, ppc, procBuf, outQ, drBuf, nAlloc, freed, exitVars>>
    /\ UNCHANGED <<connMap, handler, lastSent, lastCheck>>
    /\ ReplayRest

ReplayNext ==
    \/ MRead
    \/ MSend
    \/ MExit
    \/ PRecv
    \/ PHandle
    \/ PFinish
    \/ DRecv
    \/ DDrop
    \/ DEnd

SpecReplay == ReplayInit /\ [][ReplayNext]_vars

\* every thread is scheduled, and a main thread that left real_main exits
FairSpecReplay ==
    /\ SpecReplay
    /\ WF_vars(MRead) /\ WF_vars(MSend) /\ WF_vars(MExit)
    /\ WF_vars(PRecv) /\ WF_vars(PHandle) /\ WF_vars(PFinish)
    /\ WF_vars(DRecv) /\ WF_vars(DDrop) /\ WF_vars(DEnd)


----------------------------------------------------------------------------
\* Properties of the pipeline of replay-pcap

\* the holders of Packets, in the order of the pipeline
Holders == <<rdBuf, inQ, procBuf, outQ, drBuf>>

\* the number of holders that hold Packet b, each counted as often as it holds it
Holdings(b) ==
    LET all == rdBuf \o inQ \o procBuf \o outQ \o drBuf
    IN  Cardinality({i \in 1..Len(all) : all[i].id = b})

\* C14: every Packet allocated and not yet dropped is held exactly once, by
\* the reader, the input channel, the processor, the output channel or the
\* drainer; a dropped Packet is held by none; a thread holds at most one
C14_ExclusiveBufferOwnership ==
    /\ \A b \in 1..nAlloc : Holdings(b) = IF b \in freed THEN 0 ELSE 1
    /\ \A i \in 1..Len(Holders) : Ids(Holders[i]) \subseteq 1..nAlloc
    /\ Len(rdBuf) <= 1 /\ Len(procBuf) <= 1 /\ Len(drBuf) <= 1

\* two Packets are under way at once, one already past the processor
C14_Witness ==
    /\ nAlloc = 2
    /\ outQ # <<>>
    /\ inQ # <<>>
    /\ freed = {}


\* C15: once inp_send is dropped, the processor handles what is queued, runs
\* check_timeout and returns, and then the drainer returns (or ends with the
\* process)
C15_ShutdownChain ==
    (~inTx) ~> (/\ ppc = "done"
                /\ inQ = <<>> /\ procBuf = <<>>
                /\ lastCheck.done
                /\ (dpc = "done" \/ exited))


\* C17: replay-pcap exits with 1 only after an error has left real_main, and
\* with 0 after it has read a capture of whole records to its end
C17_ExitCodes ==
    exited =>
        /\ exitCode = 1 => mpc = "returned"
        /\ (WellFormed(capture) /\ pos = Len(capture) /\ mpc = "returned") => exitCode = 0

----------------------------------------------------------------------------
\* SpecRelay: tfh-relay (src/src/bin/tfh-relay.rs).  Two reader threads read
\* the TUN devices and send what they read on one channel; the main thread
\* receives and writes each packet to the other device.  A packet is the
\* number of the read that produced it.

\* read_packet calls that return a packet in one behaviour
MaxReads == 3

Sides == {"A", "B"}

RelayInit ==
    /\ rdr = [s \in Sides |-> "reading"]
    /\ reads = 0
    /\ chan = <<>>
    /\ wpc = "relay"
    /\ written = <<>>
    /\ ExitIdle
    /\ ReplayIdle /\ PacketIdle /\ SumIdle
    /\ ProcIdle
    /\ st = TfhStreamNew
    /\ sRes = NoRes
    /\ feeds = 0
    /\ dupFeed = FALSE
    /\ sDead = FALSE
    /\ stream = <<>>
    /\ ReorderIdle

\* what SpecRelay leaves alone
RelayRest == UNCHANGED <<streamVars, procVars, replayVars, packetVars, sumVars>>

\* a turn of the loop of spawn_reader where read_packet returns a packet: the
\* handler sends it, and the unwrap of a failed send (main has dropped the
\* Receiver) panics the reader
ReadOk(s) ==
    /\ ~exited
    /\ rdr[s] = "reading"
    /\ reads < MaxReads
    /\ reads' = reads + 1
    /\ IF wpc = "relay"
       THEN /\ chan' = Append(chan, [side |-> s, id |-> reads + 1])
            /\ UNCHANGED rdr
       ELSE /\ rdr' = [rdr EXCEPT ![s] = "panicked"]
            /\ UNCHANGED chan
    /\ UNCHANGED <<wpc, written, exitVars>>
    /\ RelayRest

\* a turn of the loop of spawn_reader where read_packet fails: the handler
\* prints the error, the loop breaks and the thread ends with its Sender
ReadErr(s) ==
    /\ ~exited
    /\ rdr[s] = "reading"
    /\ rdr' = [rdr EXCEPT ![s] = "ended"]
    /\ UNCHANGED <<reads, chan, wpc, written, exitVars>>
    /\ RelayRest

\* the outcomes of write_packet: the whole packet written, an error of
\* write, fewer bytes written than the packet has (the assert fails)
WriteResults == {"ok", "err", "short"}

\* the loop of real_main with the two devices exchanged: what was read from
\* a device is written back to it
Relay_to_sender(res) ==
    /\ ~exited
    /\ wpc = "relay"
    /\ chan # <<>>
    /\ IF res = "ok"
       THEN /\ chan' = Tail(chan)
            /\ written' = Append(written, [side |-> Head(chan).side, id |-> Head(chan).id,
                                           to |-> Head(chan).side])
            /\ UNCHANGED wpc
       ELSE /\ chan' = <<>>
            /\ wpc' = IF res = "err" THEN "err" ELSE "panicked"
            /\ UNCHANGED written
    /\ UNCHANGED <<rdr, reads, exitVars>>
    /\ RelayRest

\* a turn of the loop of real_main: the next Input is received and written
\* to the device of the other side
Relay(res) ==
    /\ ~exited
    /\ wpc = "relay"
    /\ chan # <<>>
    /\ IF res = "ok"
       THEN /\ chan' = Tail(chan)
            /\ written' = Append(written, [side |-> Head(chan).side, id |-> Head(chan).id,
                                           to |-> IF Head(chan).side = "A" THEN "B" ELSE "A"])
            /\ UNCHANGED wpc
       ELSE /\ chan' = <<>>
            /\ wpc' = IF res = "err" THEN "err" ELSE "panicked"
            /\ UNCHANGED written
    /\ UNCHANGED <<rdr, reads, exitVars>>
    /\ RelayRest

\* both Senders are dropped and the channel is empty: recv.iter() ends and
\* real_main returns Ok(())
MainEnd ==
    /\ ~exited
    /\ wpc = "relay"
    /\ chan = <<>>
    /\ \A s \in Sides : rdr[s] # "reading"
    /\ wpc' = "ok"
    /\ UNCHANGED <<rdr, reads, chan, written, exitVars>>
    /\ RelayRest

\* main: return after Ok(()), process::exit(1) after an error, the exit of
\* the runtime after a panic of the main thread
RelayExit ==
    /\ ~exited
    /\ wpc # "relay"
    /\ exited' = TRUE
    /\ exitCode' = IF wpc = "ok" THEN 0 ELSE IF wpc = "err" THEN 1 ELSE 101
    /\ UNCHANGED relayVars
    /\ RelayRest

RelayNext ==
    \/ \E s \in Sides : ReadOk(s)
    \/ \E s \in Sides : ReadErr(s)
    \/ \E res \in WriteResults : Relay(res)
    \/ MainEnd
    \/ RelayExit

SpecRelay == RelayInit /\ [][RelayNext]_vars

\* the main thread is scheduled; when the devices deliver packets or fail is
\* up to the devices
FairSpecRelay ==
    /\ SpecRelay
    /\ WF_vars(\E res \in WriteResults : Relay(res))
    /\ WF_vars(MainEnd)
    /\ WF_vars(RelayExit)

\* C16: after the read of a reader has failed, the relay exits with code 1
C16_ReadErrorExitsWithOne ==
    (\E s \in Sides : rdr[s] = "ended") ~> (exited /\ exitCode = 1)


----------------------------------------------------------------------------
\* SpecPacket: one Packet and the safe operations that set its len.  pkRes
\* records the last call: its name, its argument, len before it, and whether
\* it returned.  After a failed assert the thread unwinds; the next call is a
\* constructor.

\* items one extend or extend_from_slice call appends at most
MaxExtend == 3

\* the arguments of zeroed
ZeroedArgs == {0, 1, PACKET_CAP - 2, PACKET_CAP - 1, PACKET_CAP, PACKET_CAP + 1, 2 * PACKET_CAP}

\* the arguments of truncate on a packet of length len
TruncateArgs(len) == {0, len, len + 1, PACKET_CAP + 1} \cup {n \in {len - 1} : n >= 0}

PacketInit ==
    /\ PacketIdle
    /\ ReplayIdle /\ RelayIdle /\ ExitIdle /\ SumIdle
    /\ ProcIdle
    /\ st = TfhStreamNew
    /\ sRes = NoRes
    /\ feeds = 0
    /\ dupFeed = FALSE
    /\ sDead = FALSE
    /\ stream = <<>>
    /\ ReorderIdle

\* what SpecPacket leaves alone
PacketRest == UNCHANGED <<streamVars, procVars, replayVars, relayVars, exitVars, sumVars>>

\* the call op(arg) with result r
PacketCall(op, arg, r) ==
    /\ pkLen' = r.len
    /\ pkRes' = [op |-> op, arg |-> arg, before |-> pkLen, ok |-> r.ok]
    /\ PacketRest

PDefault == PacketCall("default", 0, default)

PZeroed(n) == PacketCall("zeroed", n, zeroed(n))

PPush == pkRes.ok /\ PacketCall("push", 1, push(pkLen))

PExtend(n) == pkRes.ok /\ PacketCall("extend", n, extend(pkLen, n))

PExtendFromSlice(n) ==
    pkRes.ok /\ PacketCall("extend_from_slice", n, extend_from_slice(pkLen, n))

PTruncate(n) == pkRes.ok /\ PacketCall("truncate", n, truncate(pkLen, n))

PacketNext ==
    \/ PDefault
    \/ \E n \in ZeroedArgs : PZeroed(n)
    \/ PPush
    \/ \E n \in 0..MaxExtend : PExtend(n)
    \/ \E n \in 0..MaxExtend : PExtendFromSlice(n)
    \/ \E n \in TruncateArgs(pkLen) : PTruncate(n)

SpecPacket == PacketInit /\ [][PacketNext]_vars

\* C18: len stays within 0..PACKET_CAP; push on a full packet and zeroed
\* beyond the capacity fail, truncate beyond len fails, and none of them
\* leaves a longer packet
C18_LenWithinCapacity ==
    /\ 0 <= pkLen /\ pkLen <= PACKET_CAP
    /\ (pkRes.op = "push" /\ pkRes.before = PACKET_CAP) => (~pkRes.ok /\ pkLen = PACKET_CAP)
    /\ (pkRes.op = "zeroed" /\ pkRes.arg > PACKET_CAP) => (~pkRes.ok /\ pkLen = 0)
    /\ (pkRes.op = "truncate" /\ pkRes.arg > pkRes.before) => (~pkRes.ok /\ pkLen = pkRes.before)
    /\ (pkRes.op \in {"extend", "extend_from_slice"} /\ pkRes.ok) => pkLen = pkRes.before + pkRes.arg

\* extend_from_slice with two items on a packet one byte short of full: the
\* first push fills it, the second push finds len = PACKET_CAP and fails
C18_Witness ==
    /\ pkRes.op = "extend_from_slice" /\ ~pkRes.ok
    /\ pkRes.before = PACKET_CAP - 1 /\ pkRes.arg = 2
    /\ pkLen = PACKET_CAP


----------------------------------------------------------------------------
\* SpecChecksum: compute_ipv4_checksum on one packet that is an IPv4 header,
\* called before and after the checksum field is overwritten.  ckRes records
\* each call: the header it saw and what it returned.

\* compute_ipv4_checksum calls in one behaviour
MaxComputes == 2

\* an IPv4 header of ihl_ words: total length, ident, ttl and protocol, the
\* checksum field, the addresses, and (ihl_ - 5) * 4 option bytes ob
Ipv4Header(ihl_, tlen, ident, tp, ck, src, dst, ob) ==
    <<64 + ihl_, 0>> \o U16Bytes(tlen) \o U16Bytes(ident) \o <<64, 0>> \o tp \o U16Bytes(ck)
    \o src \o dst \o [k \in 1..(ihl_ - 5) * 4 |-> ob]

\* Ipv4Header::checksum and ::set_checksum
checksum(h) == u16_be(h, 10)
set_checksum(h, x) == [k \in 1..Len(h) |-> IF k = 11 THEN x \div 256
                                          ELSE IF k = 12 THEN x % 256 ELSE h[k]]

\* the arithmetic sum of the 16-bit words of h from offset i on
RECURSIVE WordSum(_, _)
WordSum(h, i) == IF i >= Len(h) THEN 0 ELSE u16_be(h, i) + WordSum(h, i + 2)

\* the carries of n folded back into 16 bits
RECURSIVE Fold(_)
Fold(n) == IF n < 65536 THEN n ELSE Fold((n % 65536) + (n \div 65536))

\* the stored checksum of h is valid: the one's-complement sum of all words
\* of the header, the checksum field included, is 0xFFFF
Valid(h) == Fold(WordSum(h, 0)) = 65535

\* the header of the fixture: 45 00 00 28 1c 46 40 00 40 06 00 00 ac 10 0a 63
\* ac 10 0a 0c
Fixture == Ipv4Header(5, 40, 7238, <<64, 6>>, 0, <<172, 16, 10, 99>>, <<172, 16, 10, 12>>, 0)

\* headers with the checksum field 0
BaseHeaders ==
    {Ipv4Header(i, tl, id, tp, 0, a[1], a[2], ob) :
        i \in {5, 6, 15}, tl \in {40, 60}, id \in {7238, 65535},
        tp \in {<<64, 6>>, <<255, 17>>},
        a \in {<<<<172, 16, 10, 99>>, <<172, 16, 10, 12>>>>,
               <<<<255, 255, 255, 255>>, <<255, 255, 255, 255>>>>},
        ob \in {0, 255}}

\* h with the ident that makes the words outside the checksum field sum to
\* 0xFFFF
Balanced(h) ==
    LET rest == WordSum(h, 0) - u16_be(h, 4) - u16_be(h, 10)
        id == (65535 - (rest % 65535)) % 65535
    IN  [k \in 1..Len(h) |-> IF k = 5 THEN id \div 256 ELSE IF k = 6 THEN id % 256 ELSE h[k]]

\* the checksum a sender stores in h
SenderChecksum(h) == 65535 - Fold(WordSum(set_checksum(h, 0), 0))

\* what the checksum field is overwritten with
CkValues == {0, 65535, 4660}

Headers ==
    UNION {{set_checksum(h, c) : c \in CkValues \cup {SenderChecksum(h)}} :
              h \in BaseHeaders \cup {Balanced(b) : b \in BaseHeaders}}

ChecksumInit ==
    /\ ipHdr \in Headers
    /\ ckRes = <<>>
    /\ ReplayIdle /\ RelayIdle /\ ExitIdle /\ PacketIdle
    /\ ProcIdle
    /\ st = TfhStreamNew
    /\ sRes = NoRes
    /\ feeds = 0
    /\ dupFeed = FALSE
    /\ sDead = FALSE
    /\ stream = <<>>
    /\ ReorderIdle

\* what SpecChecksum leaves alone
ChecksumRest == UNCHANGED <<streamVars, procVars, replayVars, relayVars, exitVars, packetVars>>

\* a call of compute_ipv4_checksum
Compute ==
    /\ Len(ckRes) < MaxComputes
    /\ \E r \in {compute_ipv4_checksum(ipHdr)} :
          ckRes' = Append(ckRes, [h |-> ipHdr, sum |-> r])
    /\ UNCHANGED ipHdr
    /\ ChecksumRest

\* ipv4_mut().set_checksum(c)
SetChecksum(c) ==
    /\ checksum(ipHdr) # c
    /\ ipHdr' = set_checksum(ipHdr, c)
    /\ UNCHANGED ckRes
    /\ ChecksumRest

ChecksumNext ==
    \/ Compute
    \/ \E c \in CkValues : SetChecksum(c)

SpecChecksum == ChecksumInit /\ [][ChecksumNext]_vars

\* C19 as stated: on the header of the fixture compute_ipv4_checksum returns
\* 0xb1e6
C19_FixtureChecksum ==
    \A i \in 1..Len(ckRes) : ckRes[i].h = Fixture => ckRes[i].sum = 45542

\* C19 amended: on the header of the fixture compute_ipv4_checksum returns
\* 0xb1fa; 0xb1e6 is what it returns when the total length is 0x003c
C19_FixtureChecksumB1FA ==
    \A i \in 1..Len(ckRes) :
        /\ ckRes[i].h = Fixture => ckRes[i].sum = 45562
        /\ ckRes[i].h = [Fixture EXCEPT ![4] = 60] => ckRes[i].sum = 45542

\* compute_ipv4_checksum was called on the header of the fixture
C19_Witness == \E i \in 1..Len(ckRes) : ckRes[i].h = Fixture

\* C20 as stated: on a header whose stored checksum is valid the result is the
\* stored checksum, and the result does not depend on bytes 10-11
C20_ChecksumRoundTrip ==
    /\ \A i \in 1..Len(ckRes) : Valid(ckRes[i].h) => ckRes[i].sum = checksum(ckRes[i].h)
    /\ \A i, j \in 1..Len(ckRes) : ckRes[i].sum = ckRes[j].sum

\* C20 amended: a valid stored checksum other than 0xFFFF is returned; for
\* a valid stored 0xFFFF the result is 0; the result does not depend on
\* bytes 10-11
C20_ChecksumRoundTripButFFFF ==
    /\ \A i \in 1..Len(ckRes) :
          Valid(ckRes[i].h) =>
              ckRes[i].sum = IF checksum(ckRes[i].h) = 65535 THEN 0 ELSE checksum(ckRes[i].h)
    /\ \A i, j \in 1..Len(ckRes) : ckRes[i].sum = ckRes[j].sum

\* the result on a valid header of 15 words was the stored checksum, and the
\* same after the field was overwritten
C20_Witness ==
    /\ Len(ckRes) = 2
    /\ ihl(ckRes[1].h) = 15
    /\ Valid(ckRes[1].h) /\ checksum(ckRes[1].h) \notin {0, 65535}
    /\ ckRes[1].sum = checksum(ckRes[1].h)
    /\ ckRes[2].h # ckRes[1].h

----------------------------------------------------------------------------
\* Properties of the default handler inside the processor

\* msg changes the name of its connection: a client to server message with
\* major 0x0a whose body holds the 64 bytes of a name at 12..76
NameChange(msg) == msg.dir = 0 /\ msg.major = 10 /\ Len(msg.body) >= 12 + 64

\* C21: while the file system takes writes, status.txt is written at least
\* once for every name change a handle call dispatches, and at least once for
\* every connection check_timeout evicts, whether it had a name or not
C21_StatusRewrittenOnNameAndTimeout ==
    [][handler.io = "ok" =>
          /\ nProc' = nProc + 1 =>
                handler'.writes >=
                    handler.writes + Cardinality({i \in 1..Len(lastSent') : NameChange(lastSent'[i])})
          /\ (lastCheck'.done /\ ~lastCheck.done) =>
                handler'.writes >= handler.writes + Len(lastCheck'.fired)]_vars

\* C22: a processing step taken while every File::create and write fails
\* does to the connections, to the dispatched messages, to the names, to the
\* thread and to the output channel what the same step does when the file
\* system works; only the log files and status.txt stay as they were
C22_FileErrorsLeaveDataPath ==
    [][(nProc' = nProc + 1 /\ handler.io = "fail")
         => \E r \in {process_one(connMap, [handler EXCEPT !.io = "ok"],
                                  inHist[nProc + 1], now)} :
               /\ connMap' = r.map
               /\ lastSent' = r.sent
               /\ pc' = (IF r.panic THEN "panicked" ELSE "running")
               /\ handler'.names = r.hs.names
               /\ handler'.logs = handler.logs
               /\ handler'.status = handler.status
               /\ Len(outHist') = Len(outHist) + (IF r.out = "none" THEN 0 ELSE 1)
               /\ r.out # "none" =>
                     /\ outHist'[Len(outHist')].out = r.out
                     /\ outHist'[Len(outHist')].p = r.p]_vars

\* while the file system fails, a second packet is handled after a first one
\* whose message could not be logged: both were dispatched and forwarded
C22_Witness ==
    /\ handler.io = "fail"
    /\ pc = "running"
    /\ nProc = 2
    /\ Len(outHist) = 2
    /\ lastSent # <<>>
    /\ DOMAIN handler.logs = {}
    /\ handler.writes = 0
    /\ Cardinality(DOMAIN handler.names) = 2

\* C23: every packet the processor has received whose first byte has the
\* version nibble 4 has ipv4_start = 0, ipv4_len = IHL * 4 between 20 and
\* 60, udp_start = ipv4_end and udp_len = 8
C23_HeaderOffsets ==
    \A i \in 1..nProc :
        \E p \in {inHist[i].p} :
            (Len(p) >= 1 /\ version(p) = 4)
                => /\ ipv4_start(p) = 0
                   /\ ipv4_len(p) = ihl(p) * 4
                   /\ 20 <= ipv4_len(p) /\ ipv4_len(p) <= 60
                   /\ udp_start(p) = ipv4_end(p)
                   /\ udp_len(p) = 8

----------------------------------------------------------------------------
\* Frame properties of one reassembler (SpecStream)

\* C24: a call of next_message that returns None leaves the reassembler as
\* it was; one that returns the prologue takes exactly one byte from the
\* front of buf and advances start by 1; one that returns a framed message
\* takes exactly the 4 + frame_len bytes of the frame and advances start by
\* as much, and the len of the message is the length of its body,
\* 4 + frame_len - header_len.  (A call that panics changes nothing.)
C24_NextMessageFrame ==
    [][sRes'.op = "next_message" =>
          \/ /\ sRes'.kind \in {"None", "panic"}
             /\ st' = st
          \/ /\ sRes'.kind = "Some"
             /\ sRes'.prologue
             /\ st'.start = st.start + 1
             /\ st'.buf = SubSeq(st.buf, 2, Len(st.buf))
             /\ sRes'.msg.len = 1 /\ Len(sRes'.msg.body) = 1
          \/ /\ sRes'.kind = "Some"
             /\ ~sRes'.prologue
             /\ \E frame_len \in {u32_be(st.buf, 0)} :
                   \E header_len \in {IF u32_be(st.buf, 6) = 32 THEN 14 ELSE 10} :
                       /\ 4 + frame_len <= Len(st.buf)
                       /\ st'.start = st.start + 4 + frame_len
                       /\ st'.buf = SubSeq(st.buf, 4 + frame_len + 1, Len(st.buf))
                       /\ sRes'.msg.len = 4 + frame_len - header_len
                       /\ Len(sRes'.msg.body) = sRes'.msg.len
                       /\ st'.sync = st.sync]_vars

\* a framed message with a minor opcode was returned from a buffer that
\* holds more than that message, and a body byte came with it
C24_Witness ==
    /\ sRes.op = "next_message"
    /\ sRes.kind = "Some"
    /\ ~sRes.prologue
    /\ sRes.msg.major = 32
    /\ Len(st.buf) > 0
    /\ st.start = 15

\* C25: handle_packet on a datagram that ends before start, in a
\* reassembler that is synced or holds bytes, leaves start, buf, chunks and
\* sync as they were: neither its bytes nor its ack are recorded
C25_StaleDatagramIgnored ==
    [][(/\ sRes'.op = "handle_packet"
        /\ sRes'.d.seq + Len(sRes'.d.data) < st.start
        /\ (st.sync \/ Len(st.buf) > 0))
          => st' = st]_vars

\* a datagram with payload that ends before start was handled by a synced
\* reassembler while a later chunk waits in the buffer; no chunk carries its
\* sequence number
C25_Witness ==
    /\ sRes.op = "handle_packet"
    /\ Len(sRes.d.data) > 0
    /\ sRes.d.seq + Len(sRes.d.data) < st.start
    /\ st.sync
    /\ Len(st.buf) > 0
    /\ st.chunks # EmptyChunks
    /\ sRes.d.seq \notin DOMAIN st.chunks

----------------------------------------------------------------------------
\* Properties of the connection manager inside the processor (SpecProc)

\* C26: whenever handle has returned, next_message on either reassembler of
\* every connection of the map returns None: no complete message waits for a
\* later packet
C26_NoCompleteMessageLeftWaiting ==
    pc # "panicked" =>
        \A ct \in DOMAIN connMap :
            /\ next_message(connMap[ct].ab).kind = "None"
            /\ next_message(connMap[ct].ba).kind = "None"

\* handle has returned from a packet that carried two messages, and the
\* reassembler it fed has moved past both
C26_Witness ==
    /\ pc = "running"
    /\ Len(lastSent) >= 2
    /\ \E ct \in DOMAIN connMap : connMap[ct].ab.start > 1 /\ connMap[ct].ab.buf = <<>>

\* C27: a processing step on a packet that is not a TFH stream packet leaves
\* the connection map (entries, last_packet, reassemblers) and the handler as
\* they were and passes no message to on_message
C27_NonTfhPacketHasNoEffect ==
    [][(/\ nProc' = nProc + 1
        /\ ~is_tfh_stream_panics(inHist[nProc + 1].p)
        /\ ~is_tfh_stream(inHist[nProc + 1].p))
          => /\ connMap' = connMap
             /\ handler' = handler
             /\ lastSent' = <<>>]_vars

\* a UDP datagram of another protocol was handled after a login, later than
\* the last packet of the login's connection: the map still holds that
\* connection alone, with its old last_packet
C27_Witness ==
    /\ pc = "running"
    /\ nProc = 2
    /\ ~is_tfh_stream_panics(inHist[2].p)
    /\ ~is_tfh_stream(inHist[2].p)
    /\ is_udp(inHist[2].p)
    /\ Cardinality(DOMAIN connMap) = 1
    /\ \A ct \in DOMAIN connMap : connMap[ct].last_packet < now
    /\ DOMAIN handler.names # {}
    /\ Len(outHist) = 2

----------------------------------------------------------------------------
\* SpecConns: TfhStreamConns driven through its two public methods by any
\* caller: handle and check_timeout in any order while the clock runs.  The
\* variables are those of the processor; inHist lists the packets handled.

ConnsInit == ProcInit

\* a call of handle
CHandle(inp) ==
    /\ pc = "running"
    /\ Len(inHist) < MaxInputs
    /\ inHist' = Append(inHist, inp)
    /\ nProc' = nProc + 1
    /\ \E r \in {handle(connMap, handler, inp.p, inp.side = "B", now)} :
           /\ connMap' = r.map
           /\ handler' = r.hs
           /\ lastSent' = r.sent
           /\ pc' = IF r.panic THEN "panicked" ELSE "running"
    /\ UNCHANGED <<inOpen, outHist, now, lastCheck>>
    /\ UNCHANGED streamVars
    /\ UNCHANGED auxVars

\* a call of check_timeout
CCheckTimeout ==
    /\ pc = "running"
    /\ \E order \in Orders(DOMAIN connMap) :
          \E r \in {check_timeout(connMap, handler, now, order)} :
              /\ connMap' = r.map
              /\ handler' = r.hs
              /\ lastCheck' = [done |-> TRUE, at |-> now,
                               before |-> [k \in DOMAIN connMap |-> connMap[k].last_packet],
                               fired |-> r.fired, after |-> DOMAIN r.map]
    /\ UNCHANGED <<inHist, inOpen, nProc, pc, outHist, now, lastSent>>
    /\ UNCHANGED streamVars
    /\ UNCHANGED auxVars

ConnsNext ==
    \/ \E inp \in Inputs : CHandle(inp)
    \/ CCheckTimeout
    \/ \E dt \in TickSteps : Tick(dt)

SpecConns == ConnsInit /\ [][ConnsNext]_vars

\* C28: a handle call on a TFH stream packet sets the last_packet of the
\* packet's connection to the time of the call; a check_timeout call neither
\* removes nor fires on_timeout for a connection whose last_packet is less
\* than 60 s old; and a handle call on a TFH stream packet whose connection
\* is not in the map (never seen, or evicted) makes an entry from new,
\* unsynced reassemblers: the one the packet does not feed is as
\* TfhStream::new makes it, the other is a new one given the packet's
\* datagram and drained
C28_RefreshEvictFresh ==
    [][/\ (/\ nProc' = nProc + 1
           /\ pc' = "running"
           /\ is_tfh_stream(inHist'[nProc'].p))
          => \E inp \in {inHist'[nProc']} :
             \E ct \in {from_udp_packet(inp.p, inp.side = "B")} :
                /\ ct \in DOMAIN connMap'
                /\ connMap'[ct].last_packet = now
                /\ ct \notin DOMAIN connMap =>
                      \E fed \in {DrainAll(handle_packet(TfhStreamNew, tfh_datagram(inp.p)),
                                           <<>>).s} :
                          connMap'[ct] =
                              IF inp.side = "A"
                              THEN [ab |-> fed, ba |-> TfhStreamNew, last_packet |-> now]
                              ELSE [ab |-> TfhStreamNew, ba |-> fed, last_packet |-> now]
       /\ lastCheck' # lastCheck
          => \A ct \in DOMAIN connMap :
                now - connMap[ct].last_packet < CONN_TIMEOUT * TicksPerSec
                    => /\ ct \in DOMAIN connMap'
                       /\ connMap'[ct] = connMap[ct]
                       /\ \A i \in 1..Len(lastCheck'.fired) : lastCheck'.fired[i] # ct]_vars

\* a connection was evicted by check_timeout and seen again: its login
\* packet, sent a second time, was dispatched in full by the new entry, whose
\* last_packet is the time of that packet
C28_Witness ==
    /\ pc = "running"
    /\ nProc = 2
    /\ inHist[1] = inHist[2]
    /\ Len(lastSent) = 2
    /\ lastCheck.done
    /\ \E ct \in DOMAIN connMap :
          /\ lastCheck.fired = <<ct>>
          /\ lastCheck.after = {}
          /\ connMap[ct].last_packet >= CONN_TIMEOUT * TicksPerSec
          /\ connMap[ct].last_packet = now
          /\ connMap[ct].ab.start > 1
          /\ connMap[ct].ba = TfhStreamNew

----------------------------------------------------------------------------
\* Gap safety (SpecReorder)

\* the stream positions covered by the payload of a datagram handle_packet
\* was given
Covered ==
    UNION {delivered[i].seq .. (delivered[i].seq + Len(delivered[i].data) - 1) :
               i \in 1..Len(delivered)}

\* the positions of the buffer that no delivered payload covers: the holes
\* copy_slice_into_vec_deque filled with zeros
Holes ==
    IF st.buf = <<>> THEN {}
    ELSE (st.start .. (st.start + Len(st.buf) - 1)) \ Covered

\* a hole lies before the stream position limit
HoleBelow(limit) == \E h \in Holes : h < limit

\* C29: in every state, a message next_message would return consumes only
\* positions covered by delivered payload; while a hole lies in the next
\* frame (the 4 bytes of its length, or the frame_len bytes after them),
\* next_message returns None
C29_GapSafety ==
    \E r \in {next_message(st)} :
        /\ r.kind = "Some" => (st.start .. (r.s.start - 1)) \subseteq Covered
        /\ (/\ st.start \notin {0, SeqNotSet}
            /\ \/ HoleBelow(st.start + 4)
               \/ /\ Len(st.buf) >= 4
                  /\ HoleBelow(st.start + 4 + u32_be(st.buf, 0)))
              => r.kind = "None"

\* a synced reassembler has returned the prologue; the datagram with the
\* end of the next frame has arrived before the one with its middle, so a
\* hole lies inside the frame whose length is already known
C29_Witness ==
    /\ st.sync
    /\ Len(msgs) = 1
    /\ Len(st.buf) >= 4
    /\ Len(st.buf) >= 4 + u32_be(st.buf, 0)
    /\ ~HoleBelow(st.start + 4)
    /\ HoleBelow(st.start + 4 + u32_be(st.buf, 0))
    /\ next_message(st).kind = "None"

----------------------------------------------------------------------------
\* The status rewriter inside the processor (SpecProc)

\* the index just past the fourth NUL of payload b counted from offset 6
PastFourthNul(b) ==
    CHOOSE i \in 7..Len(b) :
        /\ u8_be(b, i - 1) = 0
        /\ Cardinality({j \in 6..(i - 1) : u8_be(b, j) = 0}) = 4

\* C30: a packet from B on which the status rewriter succeeded is forwarded
\* with the length of the received packet; payload[i + 2] is 0, where i is
\* the index just past the fourth NUL-terminated string from offset 6; and
\* no byte differs from the received packet other than payload[i + 2] and
\* the two bytes of the UDP checksum
C30_RewriteTouchesCountAndChecksum ==
    \A k \in 1..Len(outHist) :
        outHist[k].edit = "ok" =>
            \E inp \in {inHist[outHist[k].src]} :
            \E q \in {outHist[k].p} :
            \E i \in {PastFourthNul(udp_payload(inp.p))} :
                /\ inp.side = "B"
                /\ source_port(udp(inp.p)) \in STATUS_PORT_MIN..STATUS_PORT_MAX
                /\ Len(q) = Len(inp.p)
                /\ u8_be(udp_payload(q), i + 2) = 0
                /\ \A at \in 0..(Len(q) - 1) :
                      u8_be(q, at) # u8_be(inp.p, at)
                          => at \in {udp_end(inp.p) + i + 2,
                                     udp_start(inp.p) + 6, udp_start(inp.p) + 7}

\* a status reply with a player count of 3 has been rewritten and forwarded:
\* the count and the checksum differ from the received packet
C30_Witness ==
    \E k \in 1..Len(outHist) :
        /\ outHist[k].edit = "ok"
        /\ inHist[outHist[k].src] = [side |-> "B", p |-> PktStatus]
        /\ u8_be(udp_payload(PktStatus), 16) = 3
        /\ u8_be(udp_payload(outHist[k].p), 16) = 0
        /\ Slice(outHist[k].p, udp_start(PktStatus) + 6, udp_start(PktStatus) + 8)
              # Slice(PktStatus, udp_start(PktStatus) + 6, udp_start(PktStatus) + 8)

----------------------------------------------------------------------------
\* Forwarding of the relay (SpecRelay)

\* the packets written and the packets still in the channel, in order
Accepted ==
    [i \in 1..Len(written) |-> [side |-> written[i].side, id |-> written[i].id]] \o chan

\* while no write_packet has failed: every packet read is in the channel or
\* has been written, exactly once; the packets of one side are written and
\* queued in the order they were read; each write went to the device of the
\* other side; and the main loop has ended only with the channel empty and
\* both readers gone
RelayForwarded ==
    wpc \in {"relay", "ok"} =>
        /\ Len(Accepted) = reads
        /\ \A k \in 1..reads : Cardinality({i \in 1..Len(Accepted) : Accepted[i].id = k}) = 1
        /\ \A i, j \in 1..Len(Accepted) :
              (i < j /\ Accepted[i].side = Accepted[j].side) => Accepted[i].id < Accepted[j].id
        /\ Cardinality({i \in 1..Len(written) : written[i].side = written[i].to}) = 0
        /\ wpc = "ok" => (chan = <<>> /\ \A s \in Sides : rdr[s] # "reading")

\* C31: in every interleaving of the readers and the main loop, as long as
\* no write fails, each packet read from one side is written exactly once
\* to the other side, in the order of the reads of its side; and a read
\* error ends the reader of its side only: the other reader, the channel,
\* what was written and the main loop are as before, and the main loop goes
\* on until both readers have ended
C31_RelayForwardsEachPacketOnce ==
    [][/\ RelayForwarded'
       /\ \A s \in Sides :
             (rdr[s] = "reading" /\ rdr'[s] = "ended")
                => /\ \A o \in Sides \ {s} : rdr'[o] = rdr[o]
                   /\ chan' = chan
                   /\ written' = written
                   /\ wpc' = wpc
                   /\ exited' = exited]_vars

\* the reader of one side has ended on a read error, the other is reading;
\* a packet of each direction was written and a third one waits
C31_Witness ==
    /\ wpc = "relay"
    /\ ~exited
    /\ \E s \in Sides : rdr[s] = "ended"
    /\ \E s \in Sides : rdr[s] = "reading"
    /\ Len(written) = 2
    /\ written[1].side # written[2].side
    /\ Len(chan) = 1
    /\ reads = 3

----------------------------------------------------------------------------
\* The synced reassembler (SpecStream)

\* C32: no call resets sync; sync is set only with start = 0; while sync is
\* set handle_packet leaves start alone, and start changes only by a
\* next_message that returns a message and moves it forward by the bytes it
\* takes from buf.  So the ranges [start, start') consumed in a synced stream
\* begin at 0 and each begins where the one before it ended.
C32_SyncedStartOnlyAdvances ==
    [][/\ st.sync => st'.sync
       /\ (~st.sync /\ st'.sync) => (st'.start = 0 /\ sRes'.op = "handle_packet")
       /\ (st.sync /\ sRes'.op = "handle_packet") => st'.start = st.start
       /\ (st.sync /\ st'.start # st.start)
             => /\ Consuming
                /\ st'.start > st.start
                /\ st'.start - st.start = Len(st.buf) - Len(st'.buf)]_vars

\* a synced reassembler that has consumed the prologue and holds nothing is
\* given a datagram that begins at 11: start stays 1 and the bytes 1..10 are
\* a hole
C32_Witness ==
    /\ st.sync
    /\ st.start = 1
    /\ sRes.op = "handle_packet"
    /\ sRes.d.seq = 11
    /\ Len(sRes.d.data) > 0
    /\ Len(st.buf) = 10 + Len(sRes.d.data)
    /\ count_avail(st) = 0

----------------------------------------------------------------------------
\* The default handler and the connection map (SpecProc)

\* the connections with a recorded name or an open log file are in the map
HandlerWithinMap ==
    (DOMAIN handler.names \cup DOMAIN handler.logs) \subseteq DOMAIN connMap

\* C33: in every state of the processor the connections that have a name or
\* an open log file in the handler are connections of the map; and when
\* check_timeout has evicted a connection its log file is closed, it has no
\* name, and (the file system taking writes) if it had a name status.txt
\* lists exactly the names of the connections that remain
C33_HandlerTracksMap ==
    [][/\ HandlerWithinMap'
       /\ (lastCheck'.done /\ ~lastCheck.done)
             => \A i \in 1..Len(lastCheck'.fired) :
                   \E ct \in {lastCheck'.fired[i]} :
                       /\ ct \notin DOMAIN connMap'
                       /\ ct \notin DOMAIN handler'.logs
                       /\ ct \notin DOMAIN handler'.names
                       /\ (handler.io = "ok" /\ ct \in DOMAIN handler.names)
                             => /\ DOMAIN handler'.status =
                                      {handler'.names[c] : c \in DOMAIN handler'.names}
                                /\ handler.names[ct] \notin DOMAIN handler'.status]_vars

\* two clients logged in 30 s apart; check_timeout ran 65 s after the first
\* login: the first connection is gone from the map, the names, the logs and
\* status.txt, the second is in all four
C33_Witness ==
    /\ lastCheck.done
    /\ Len(lastCheck.fired) = 1
    /\ Cardinality(DOMAIN lastCheck.before) = 2
    /\ DOMAIN connMap = lastCheck.after
    /\ DOMAIN handler.names = DOMAIN connMap
    /\ DOMAIN handler.logs = DOMAIN connMap
    /\ Cardinality(DOMAIN handler.status) = 1
    /\ handler.writes = 3

\* C34: in a handle call on a TFH stream packet, every message passed to
\* on_message has the dir of the packet's own direction (0 from A, 1 from
\* B), and the reassembler of the other direction is afterwards what it was
\* before the call (as TfhStream::new makes it when the entry is new)
C34_OnlyOwnDirectionDispatches ==
    [][(/\ nProc' = nProc + 1
        /\ ~is_tfh_stream_panics(inHist[nProc + 1].p)
        /\ is_tfh_stream(inHist[nProc + 1].p)
        /\ ~tfh_stream_panics(inHist[nProc + 1].p))
         => \E inp \in {inHist[nProc + 1]} :
            \E ct \in {from_udp_packet(inp.p, inp.side = "B")} :
            \E sc \in {IF ct \in DOMAIN connMap THEN connMap[ct]
                       ELSE [ab |-> TfhStreamNew, ba |-> TfhStreamNew, last_packet |-> now]} :
                /\ \A i \in 1..Len(lastSent') :
                      lastSent'[i].dir = (IF inp.side = "A" THEN 0 ELSE 1)
                /\ inp.side = "A" => connMap'[ct].ba = sc.ba
                /\ inp.side = "B" => connMap'[ct].ab = sc.ab]_vars

\* a reply from B was handled on a connection whose A->B reassembler had
\* already returned the login: both messages of the reply have dir 1
C34_Witness ==
    /\ pc = "running"
    /\ nProc = 2
    /\ inHist[2] = [side |-> "B", p |-> PktReply]
    /\ Len(lastSent) = 2
    /\ \A i \in 1..Len(lastSent) : lastSent[i].dir = 1
    /\ \E ct \in DOMAIN connMap : connMap[ct].ab.start > 1 /\ connMap[ct].ba.start > 1

----------------------------------------------------------------------------
\* The exit of replay-pcap (SpecReplay)

\* C35: when replay-pcap has exited and its processing thread has not
\* panicked, no frame sent on the input channel is still queued or in the
\* hands of the processor, and the processor has run check_timeout and
\* returned
C35_ExitAfterAllFramesProcessed ==
    (exited /\ ppc # "panicked")
        => /\ inQ = <<>>
           /\ procBuf = <<>>
           /\ ppc = "done"
           /\ lastCheck.done

====
